---------------------------- MODULE Spec2Model ----------------------------
(***************************************************************************)
(* Model of the Yamaha YMW-258-F "GEW8" (MultiPCM) sound core,             *)
(* src/src/devices/sound/multipcm.cpp: the register interface (write,      *)
(* write_slot), the retrigger algorithm, the envelope generator, the LFOs  *)
(* and the stream renderer (one RenderTick = one output sample over all    *)
(* 28 slots).                                                              *)
(*                                                                         *)
(* Integer representation.  TLC integers are 32-bit signed.  A uint32_t    *)
(* field that the code may wrap (m_total_level, which has a negative       *)
(* int32_t step added to it) is stored as its two's-complement bit         *)
(* pattern read as an int32, and is shifted right with Ushr32, the         *)
(* unsigned shift.  All other products and sums stay far below 2^31 for    *)
(* the inputs enumerated here; TLC stops with an overflow error if one     *)
(* does not.                                                               *)
(*                                                                         *)
(* Floating point.  The lookup tables are built by device_start with       *)
(* float arithmetic; the literal tables below are the values those         *)
(* expressions produce (IEEE single precision, as written in the source).  *)
(* The sample rate m_rate = clock / 224 is modelled for clocks that make   *)
(* it a power of two, for which every float expression that involves       *)
(* m_rate (frequency-step table, playback step) is exact in integers.      *)
(***************************************************************************)
EXTENDS Integers, Sequences, FiniteSets, TLC

VARIABLES
    m_slots,      \* the 28 slot_t records, indexed 0..27
    m_cur_slot,   \* currently addressed slot, -1 for an invalid select code
    m_address,    \* currently addressed per-slot register 0..7
    m_rate,       \* output sample rate (clock / 224)
    out,          \* the stereo pair emitted by the last render tick
    oob,          \* TRUE once a data write has indexed m_slots outside 0..27
    op,           \* the operation that produced this state
    prev          \* m_slots as it was before that operation

vars == <<m_slots, m_cur_slot, m_address, m_rate, out, oob, op, prev>>

-----------------------------------------------------------------------------
(* Fixed-point shifts (multipcm.h; instantiated at multipcm.cpp:76,77,209). *)

TL_SHIFT ==
    12

EG_SHIFT ==
    16

LFO_SHIFT ==
    8

NumSlots ==
    28

-----------------------------------------------------------------------------
(* Bit helpers on naturals. *)

Pow2(n) ==
    2 ^ n

Shr(x, n) ==
    x \div Pow2(n)

Shl(x, n) ==
    x * Pow2(n)

BitAnd1(x, mask) ==
    \* x & mask for a mask of the form 2^k - 1
    x % (mask + 1)

Bit(x, n) ==
    (x \div Pow2(n)) % 2

RECURSIVE BitOr(_, _)
BitOr(a, b) ==
    IF a = 0 THEN b
    ELSE IF b = 0 THEN a
    ELSE (IF (a % 2 = 1) \/ (b % 2 = 1) THEN 1 ELSE 0)
         + 2 * BitOr(a \div 2, b \div 2)

MinInt32 ==
    -2147483647 - 1

Ushr32(x, n) ==
    \* (uint32_t)x >> n, x given as the int32 reading of the bit pattern
    IF x >= 0 THEN x \div Pow2(n)
    ELSE ((x - MinInt32) \div Pow2(n)) + Pow2(31 - n)

S16(x) ==
    \* (int16_t)x for 0 <= x < 65536
    IF x >= 32768 THEN x - 65536 ELSE x

-----------------------------------------------------------------------------
(* Lookup tables built by device_start and lfo_init.  Sequences are        *)
(* 1-based: entry i of the C array is T[i + 1].                            *)

LeftPanTable ==
  <<1024, 980, 939, 899, 861, 825, 790, 756, 724, 694, 664, 636, 609, 584, 559, 535,
    513, 491, 470, 450, 431, 413, 396, 379, 363, 347, 333, 319, 305, 292, 280, 268,
    257, 246, 235, 225, 216, 207, 198, 190, 182, 174, 167, 159, 153, 146, 140, 134,
    128, 123, 118, 113, 108, 103, 99, 95, 91, 87, 83, 80, 76, 73, 70, 67,
    64, 61, 59, 56, 54, 52, 49, 47, 45, 43, 41, 40, 38, 36, 35, 33,
    32, 31, 29, 28, 27, 26, 24, 23, 22, 21, 21, 20, 19, 18, 17, 16,
    16, 15, 14, 14, 13, 13, 12, 11, 11, 11, 10, 10, 9, 9, 8, 8,
    8, 7, 7, 7, 6, 6, 6, 6, 5, 5, 5, 5, 4, 4, 4, 4,
    724, 694, 664, 636, 609, 584, 559, 535, 513, 491, 470, 450, 431, 413, 396, 379,
    363, 347, 333, 319, 305, 292, 280, 268, 257, 246, 235, 225, 216, 207, 198, 190,
    182, 174, 167, 159, 153, 146, 140, 134, 128, 123, 118, 113, 108, 103, 99, 95,
    91, 87, 83, 80, 76, 73, 70, 67, 64, 61, 59, 56, 54, 52, 49, 47,
    45, 43, 41, 40, 38, 36, 35, 33, 32, 31, 29, 28, 27, 26, 24, 23,
    22, 21, 21, 20, 19, 18, 17, 16, 16, 15, 14, 14, 13, 13, 12, 11,
    11, 11, 10, 10, 9, 9, 8, 8, 8, 7, 7, 7, 6, 6, 6, 6,
    5, 5, 5, 5, 4, 4, 4, 4, 4, 3, 3, 3, 3, 3, 3, 3,
    513, 491, 470, 450, 431, 413, 396, 379, 363, 347, 333, 319, 305, 292, 280, 268,
    257, 246, 235, 225, 216, 207, 198, 190, 182, 174, 167, 159, 153, 146, 140, 134,
    128, 123, 118, 113, 108, 103, 99, 95, 91, 87, 83, 80, 76, 73, 70, 67,
    64, 61, 59, 56, 54, 52, 49, 47, 45, 43, 41, 40, 38, 36, 35, 33,
    32, 31, 29, 28, 27, 26, 24, 23, 22, 21, 21, 20, 19, 18, 17, 16,
    16, 15, 14, 14, 13, 13, 12, 11, 11, 11, 10, 10, 9, 9, 8, 8,
    8, 7, 7, 7, 6, 6, 6, 6, 5, 5, 5, 5, 4, 4, 4, 4,
    4, 3, 3, 3, 3, 3, 3, 3, 2, 2, 2, 2, 2, 2, 2, 2,
    363, 347, 333, 319, 305, 292, 280, 268, 257, 246, 235, 225, 216, 207, 198, 190,
    182, 174, 167, 159, 153, 146, 140, 134, 128, 123, 118, 113, 108, 103, 99, 95,
    91, 87, 83, 80, 76, 73, 70, 67, 64, 61, 59, 56, 54, 52, 49, 47,
    45, 43, 41, 40, 38, 36, 35, 33, 32, 31, 29, 28, 27, 26, 24, 23,
    22, 21, 21, 20, 19, 18, 17, 16, 16, 15, 14, 14, 13, 13, 12, 11,
    11, 11, 10, 10, 9, 9, 8, 8, 8, 7, 7, 7, 6, 6, 6, 6,
    5, 5, 5, 5, 4, 4, 4, 4, 4, 3, 3, 3, 3, 3, 3, 3,
    2, 2, 2, 2, 2, 2, 2, 2, 2, 1, 1, 1, 1, 1, 1, 1,
    257, 246, 235, 225, 216, 207, 198, 190, 182, 174, 167, 159, 153, 146, 140, 134,
    128, 123, 118, 113, 108, 103, 99, 95, 91, 87, 83, 80, 76, 73, 70, 67,
    64, 61, 59, 56, 54, 52, 49, 47, 45, 43, 41, 40, 38, 36, 35, 33,
    32, 31, 29, 28, 27, 26, 24, 23, 22, 21, 21, 20, 19, 18, 17, 16,
    16, 15, 14, 14, 13, 13, 12, 11, 11, 11, 10, 10, 9, 9, 8, 8,
    8, 7, 7, 7, 6, 6, 6, 6, 5, 5, 5, 5, 4, 4, 4, 4,
    4, 3, 3, 3, 3, 3, 3, 3, 2, 2, 2, 2, 2, 2, 2, 2,
    2, 1, 1, 1, 1, 1, 1, 1, 1, 1, 1, 1, 1, 1, 1, 1,
    182, 174, 167, 159, 153, 146, 140, 134, 128, 123, 118, 113, 108, 103, 99, 95,
    91, 87, 83, 80, 76, 73, 70, 67, 64, 61, 59, 56, 54, 52, 49, 47,
    45, 43, 41, 40, 38, 36, 35, 33, 32, 31, 29, 28, 27, 26, 24, 23,
    22, 21, 21, 20, 19, 18, 17, 16, 16, 15, 14, 14, 13, 13, 12, 11,
    11, 11, 10, 10, 9, 9, 8, 8, 8, 7, 7, 7, 6, 6, 6, 6,
    5, 5, 5, 5, 4, 4, 4, 4, 4, 3, 3, 3, 3, 3, 3, 3,
    2, 2, 2, 2, 2, 2, 2, 2, 2, 1, 1, 1, 1, 1, 1, 1,
    1, 1, 1, 1, 1, 1, 1, 1, 1, 0, 0, 0, 0, 0, 0, 0,
    128, 123, 118, 113, 108, 103, 99, 95, 91, 87, 83, 80, 76, 73, 70, 67,
    64, 61, 59, 56, 54, 52, 49, 47, 45, 43, 41, 40, 38, 36, 35, 33,
    32, 31, 29, 28, 27, 26, 24, 23, 22, 21, 21, 20, 19, 18, 17, 16,
    16, 15, 14, 14, 13, 13, 12, 11, 11, 11, 10, 10, 9, 9, 8, 8,
    8, 7, 7, 7, 6, 6, 6, 6, 5, 5, 5, 5, 4, 4, 4, 4,
    4, 3, 3, 3, 3, 3, 3, 3, 2, 2, 2, 2, 2, 2, 2, 2,
    2, 1, 1, 1, 1, 1, 1, 1, 1, 1, 1, 1, 1, 1, 1, 1,
    1, 0, 0, 0, 0, 0, 0, 0, 0, 0, 0, 0, 0, 0, 0, 0,
    0, 0, 0, 0, 0, 0, 0, 0, 0, 0, 0, 0, 0, 0, 0, 0,
    0, 0, 0, 0, 0, 0, 0, 0, 0, 0, 0, 0, 0, 0, 0, 0,
    0, 0, 0, 0, 0, 0, 0, 0, 0, 0, 0, 0, 0, 0, 0, 0,
    0, 0, 0, 0, 0, 0, 0, 0, 0, 0, 0, 0, 0, 0, 0, 0,
    0, 0, 0, 0, 0, 0, 0, 0, 0, 0, 0, 0, 0, 0, 0, 0,
    0, 0, 0, 0, 0, 0, 0, 0, 0, 0, 0, 0, 0, 0, 0, 0,
    0, 0, 0, 0, 0, 0, 0, 0, 0, 0, 0, 0, 0, 0, 0, 0,
    0, 0, 0, 0, 0, 0, 0, 0, 0, 0, 0, 0, 0, 0, 0, 0,
    0, 0, 0, 0, 0, 0, 0, 0, 0, 0, 0, 0, 0, 0, 0, 0,
    0, 0, 0, 0, 0, 0, 0, 0, 0, 0, 0, 0, 0, 0, 0, 0,
    0, 0, 0, 0, 0, 0, 0, 0, 0, 0, 0, 0, 0, 0, 0, 0,
    0, 0, 0, 0, 0, 0, 0, 0, 0, 0, 0, 0, 0, 0, 0, 0,
    0, 0, 0, 0, 0, 0, 0, 0, 0, 0, 0, 0, 0, 0, 0, 0,
    0, 0, 0, 0, 0, 0, 0, 0, 0, 0, 0, 0, 0, 0, 0, 0,
    0, 0, 0, 0, 0, 0, 0, 0, 0, 0, 0, 0, 0, 0, 0, 0,
    0, 0, 0, 0, 0, 0, 0, 0, 0, 0, 0, 0, 0, 0, 0, 0,
    1024, 980, 939, 899, 861, 825, 790, 756, 724, 694, 664, 636, 609, 584, 559, 535,
    513, 491, 470, 450, 431, 413, 396, 379, 363, 347, 333, 319, 305, 292, 280, 268,
    257, 246, 235, 225, 216, 207, 198, 190, 182, 174, 167, 159, 153, 146, 140, 134,
    128, 123, 118, 113, 108, 103, 99, 95, 91, 87, 83, 80, 76, 73, 70, 67,
    64, 61, 59, 56, 54, 52, 49, 47, 45, 43, 41, 40, 38, 36, 35, 33,
    32, 31, 29, 28, 27, 26, 24, 23, 22, 21, 21, 20, 19, 18, 17, 16,
    16, 15, 14, 14, 13, 13, 12, 11, 11, 11, 10, 10, 9, 9, 8, 8,
    8, 7, 7, 7, 6, 6, 6, 6, 5, 5, 5, 5, 4, 4, 4, 4,
    1024, 980, 939, 899, 861, 825, 790, 756, 724, 694, 664, 636, 609, 584, 559, 535,
    513, 491, 470, 450, 431, 413, 396, 379, 363, 347, 333, 319, 305, 292, 280, 268,
    257, 246, 235, 225, 216, 207, 198, 190, 182, 174, 167, 159, 153, 146, 140, 134,
    128, 123, 118, 113, 108, 103, 99, 95, 91, 87, 83, 80, 76, 73, 70, 67,
    64, 61, 59, 56, 54, 52, 49, 47, 45, 43, 41, 40, 38, 36, 35, 33,
    32, 31, 29, 28, 27, 26, 24, 23, 22, 21, 21, 20, 19, 18, 17, 16,
    16, 15, 14, 14, 13, 13, 12, 11, 11, 11, 10, 10, 9, 9, 8, 8,
    8, 7, 7, 7, 6, 6, 6, 6, 5, 5, 5, 5, 4, 4, 4, 4,
    1024, 980, 939, 899, 861, 825, 790, 756, 724, 694, 664, 636, 609, 584, 559, 535,
    513, 491, 470, 450, 431, 413, 396, 379, 363, 347, 333, 319, 305, 292, 280, 268,
    257, 246, 235, 225, 216, 207, 198, 190, 182, 174, 167, 159, 153, 146, 140, 134,
    128, 123, 118, 113, 108, 103, 99, 95, 91, 87, 83, 80, 76, 73, 70, 67,
    64, 61, 59, 56, 54, 52, 49, 47, 45, 43, 41, 40, 38, 36, 35, 33,
    32, 31, 29, 28, 27, 26, 24, 23, 22, 21, 21, 20, 19, 18, 17, 16,
    16, 15, 14, 14, 13, 13, 12, 11, 11, 11, 10, 10, 9, 9, 8, 8,
    8, 7, 7, 7, 6, 6, 6, 6, 5, 5, 5, 5, 4, 4, 4, 4,
    1024, 980, 939, 899, 861, 825, 790, 756, 724, 694, 664, 636, 609, 584, 559, 535,
    513, 491, 470, 450, 431, 413, 396, 379, 363, 347, 333, 319, 305, 292, 280, 268,
    257, 246, 235, 225, 216, 207, 198, 190, 182, 174, 167, 159, 153, 146, 140, 134,
    128, 123, 118, 113, 108, 103, 99, 95, 91, 87, 83, 80, 76, 73, 70, 67,
    64, 61, 59, 56, 54, 52, 49, 47, 45, 43, 41, 40, 38, 36, 35, 33,
    32, 31, 29, 28, 27, 26, 24, 23, 22, 21, 21, 20, 19, 18, 17, 16,
    16, 15, 14, 14, 13, 13, 12, 11, 11, 11, 10, 10, 9, 9, 8, 8,
    8, 7, 7, 7, 6, 6, 6, 6, 5, 5, 5, 5, 4, 4, 4, 4,
    1024, 980, 939, 899, 861, 825, 790, 756, 724, 694, 664, 636, 609, 584, 559, 535,
    513, 491, 470, 450, 431, 413, 396, 379, 363, 347, 333, 319, 305, 292, 280, 268,
    257, 246, 235, 225, 216, 207, 198, 190, 182, 174, 167, 159, 153, 146, 140, 134,
    128, 123, 118, 113, 108, 103, 99, 95, 91, 87, 83, 80, 76, 73, 70, 67,
    64, 61, 59, 56, 54, 52, 49, 47, 45, 43, 41, 40, 38, 36, 35, 33,
    32, 31, 29, 28, 27, 26, 24, 23, 22, 21, 21, 20, 19, 18, 17, 16,
    16, 15, 14, 14, 13, 13, 12, 11, 11, 11, 10, 10, 9, 9, 8, 8,
    8, 7, 7, 7, 6, 6, 6, 6, 5, 5, 5, 5, 4, 4, 4, 4,
    1024, 980, 939, 899, 861, 825, 790, 756, 724, 694, 664, 636, 609, 584, 559, 535,
    513, 491, 470, 450, 431, 413, 396, 379, 363, 347, 333, 319, 305, 292, 280, 268,
    257, 246, 235, 225, 216, 207, 198, 190, 182, 174, 167, 159, 153, 146, 140, 134,
    128, 123, 118, 113, 108, 103, 99, 95, 91, 87, 83, 80, 76, 73, 70, 67,
    64, 61, 59, 56, 54, 52, 49, 47, 45, 43, 41, 40, 38, 36, 35, 33,
    32, 31, 29, 28, 27, 26, 24, 23, 22, 21, 21, 20, 19, 18, 17, 16,
    16, 15, 14, 14, 13, 13, 12, 11, 11, 11, 10, 10, 9, 9, 8, 8,
    8, 7, 7, 7, 6, 6, 6, 6, 5, 5, 5, 5, 4, 4, 4, 4,
    1024, 980, 939, 899, 861, 825, 790, 756, 724, 694, 664, 636, 609, 584, 559, 535,
    513, 491, 470, 450, 431, 413, 396, 379, 363, 347, 333, 319, 305, 292, 280, 268,
    257, 246, 235, 225, 216, 207, 198, 190, 182, 174, 167, 159, 153, 146, 140, 134,
    128, 123, 118, 113, 108, 103, 99, 95, 91, 87, 83, 80, 76, 73, 70, 67,
    64, 61, 59, 56, 54, 52, 49, 47, 45, 43, 41, 40, 38, 36, 35, 33,
    32, 31, 29, 28, 27, 26, 24, 23, 22, 21, 21, 20, 19, 18, 17, 16,
    16, 15, 14, 14, 13, 13, 12, 11, 11, 11, 10, 10, 9, 9, 8, 8,
    8, 7, 7, 7, 6, 6, 6, 6, 5, 5, 5, 5, 4, 4, 4, 4>>

RightPanTable ==
  <<1024, 980, 939, 899, 861, 825, 790, 756, 724, 694, 664, 636, 609, 584, 559, 535,
    513, 491, 470, 450, 431, 413, 396, 379, 363, 347, 333, 319, 305, 292, 280, 268,
    257, 246, 235, 225, 216, 207, 198, 190, 182, 174, 167, 159, 153, 146, 140, 134,
    128, 123, 118, 113, 108, 103, 99, 95, 91, 87, 83, 80, 76, 73, 70, 67,
    64, 61, 59, 56, 54, 52, 49, 47, 45, 43, 41, 40, 38, 36, 35, 33,
    32, 31, 29, 28, 27, 26, 24, 23, 22, 21, 21, 20, 19, 18, 17, 16,
    16, 15, 14, 14, 13, 13, 12, 11, 11, 11, 10, 10, 9, 9, 8, 8,
    8, 7, 7, 7, 6, 6, 6, 6, 5, 5, 5, 5, 4, 4, 4, 4,
    1024, 980, 939, 899, 861, 825, 790, 756, 724, 694, 664, 636, 609, 584, 559, 535,
    513, 491, 470, 450, 431, 413, 396, 379, 363, 347, 333, 319, 305, 292, 280, 268,
    257, 246, 235, 225, 216, 207, 198, 190, 182, 174, 167, 159, 153, 146, 140, 134,
    128, 123, 118, 113, 108, 103, 99, 95, 91, 87, 83, 80, 76, 73, 70, 67,
    64, 61, 59, 56, 54, 52, 49, 47, 45, 43, 41, 40, 38, 36, 35, 33,
    32, 31, 29, 28, 27, 26, 24, 23, 22, 21, 21, 20, 19, 18, 17, 16,
    16, 15, 14, 14, 13, 13, 12, 11, 11, 11, 10, 10, 9, 9, 8, 8,
    8, 7, 7, 7, 6, 6, 6, 6, 5, 5, 5, 5, 4, 4, 4, 4,
    1024, 980, 939, 899, 861, 825, 790, 756, 724, 694, 664, 636, 609, 584, 559, 535,
    513, 491, 470, 450, 431, 413, 396, 379, 363, 347, 333, 319, 305, 292, 280, 268,
    257, 246, 235, 225, 216, 207, 198, 190, 182, 174, 167, 159, 153, 146, 140, 134,
    128, 123, 118, 113, 108, 103, 99, 95, 91, 87, 83, 80, 76, 73, 70, 67,
    64, 61, 59, 56, 54, 52, 49, 47, 45, 43, 41, 40, 38, 36, 35, 33,
    32, 31, 29, 28, 27, 26, 24, 23, 22, 21, 21, 20, 19, 18, 17, 16,
    16, 15, 14, 14, 13, 13, 12, 11, 11, 11, 10, 10, 9, 9, 8, 8,
    8, 7, 7, 7, 6, 6, 6, 6, 5, 5, 5, 5, 4, 4, 4, 4,
    1024, 980, 939, 899, 861, 825, 790, 756, 724, 694, 664, 636, 609, 584, 559, 535,
    513, 491, 470, 450, 431, 413, 396, 379, 363, 347, 333, 319, 305, 292, 280, 268,
    257, 246, 235, 225, 216, 207, 198, 190, 182, 174, 167, 159, 153, 146, 140, 134,
    128, 123, 118, 113, 108, 103, 99, 95, 91, 87, 83, 80, 76, 73, 70, 67,
    64, 61, 59, 56, 54, 52, 49, 47, 45, 43, 41, 40, 38, 36, 35, 33,
    32, 31, 29, 28, 27, 26, 24, 23, 22, 21, 21, 20, 19, 18, 17, 16,
    16, 15, 14, 14, 13, 13, 12, 11, 11, 11, 10, 10, 9, 9, 8, 8,
    8, 7, 7, 7, 6, 6, 6, 6, 5, 5, 5, 5, 4, 4, 4, 4,
    1024, 980, 939, 899, 861, 825, 790, 756, 724, 694, 664, 636, 609, 584, 559, 535,
    513, 491, 470, 450, 431, 413, 396, 379, 363, 347, 333, 319, 305, 292, 280, 268,
    257, 246, 235, 225, 216, 207, 198, 190, 182, 174, 167, 159, 153, 146, 140, 134,
    128, 123, 118, 113, 108, 103, 99, 95, 91, 87, 83, 80, 76, 73, 70, 67,
    64, 61, 59, 56, 54, 52, 49, 47, 45, 43, 41, 40, 38, 36, 35, 33,
    32, 31, 29, 28, 27, 26, 24, 23, 22, 21, 21, 20, 19, 18, 17, 16,
    16, 15, 14, 14, 13, 13, 12, 11, 11, 11, 10, 10, 9, 9, 8, 8,
    8, 7, 7, 7, 6, 6, 6, 6, 5, 5, 5, 5, 4, 4, 4, 4,
    1024, 980, 939, 899, 861, 825, 790, 756, 724, 694, 664, 636, 609, 584, 559, 535,
    513, 491, 470, 450, 431, 413, 396, 379, 363, 347, 333, 319, 305, 292, 280, 268,
    257, 246, 235, 225, 216, 207, 198, 190, 182, 174, 167, 159, 153, 146, 140, 134,
    128, 123, 118, 113, 108, 103, 99, 95, 91, 87, 83, 80, 76, 73, 70, 67,
    64, 61, 59, 56, 54, 52, 49, 47, 45, 43, 41, 40, 38, 36, 35, 33,
    32, 31, 29, 28, 27, 26, 24, 23, 22, 21, 21, 20, 19, 18, 17, 16,
    16, 15, 14, 14, 13, 13, 12, 11, 11, 11, 10, 10, 9, 9, 8, 8,
    8, 7, 7, 7, 6, 6, 6, 6, 5, 5, 5, 5, 4, 4, 4, 4,
    1024, 980, 939, 899, 861, 825, 790, 756, 724, 694, 664, 636, 609, 584, 559, 535,
    513, 491, 470, 450, 431, 413, 396, 379, 363, 347, 333, 319, 305, 292, 280, 268,
    257, 246, 235, 225, 216, 207, 198, 190, 182, 174, 167, 159, 153, 146, 140, 134,
    128, 123, 118, 113, 108, 103, 99, 95, 91, 87, 83, 80, 76, 73, 70, 67,
    64, 61, 59, 56, 54, 52, 49, 47, 45, 43, 41, 40, 38, 36, 35, 33,
    32, 31, 29, 28, 27, 26, 24, 23, 22, 21, 21, 20, 19, 18, 17, 16,
    16, 15, 14, 14, 13, 13, 12, 11, 11, 11, 10, 10, 9, 9, 8, 8,
    8, 7, 7, 7, 6, 6, 6, 6, 5, 5, 5, 5, 4, 4, 4, 4,
    1024, 980, 939, 899, 861, 825, 790, 756, 724, 694, 664, 636, 609, 584, 559, 535,
    513, 491, 470, 450, 431, 413, 396, 379, 363, 347, 333, 319, 305, 292, 280, 268,
    257, 246, 235, 225, 216, 207, 198, 190, 182, 174, 167, 159, 153, 146, 140, 134,
    128, 123, 118, 113, 108, 103, 99, 95, 91, 87, 83, 80, 76, 73, 70, 67,
    64, 61, 59, 56, 54, 52, 49, 47, 45, 43, 41, 40, 38, 36, 35, 33,
    32, 31, 29, 28, 27, 26, 24, 23, 22, 21, 21, 20, 19, 18, 17, 16,
    16, 15, 14, 14, 13, 13, 12, 11, 11, 11, 10, 10, 9, 9, 8, 8,
    8, 7, 7, 7, 6, 6, 6, 6, 5, 5, 5, 5, 4, 4, 4, 4,
    0, 0, 0, 0, 0, 0, 0, 0, 0, 0, 0, 0, 0, 0, 0, 0,
    0, 0, 0, 0, 0, 0, 0, 0, 0, 0, 0, 0, 0, 0, 0, 0,
    0, 0, 0, 0, 0, 0, 0, 0, 0, 0, 0, 0, 0, 0, 0, 0,
    0, 0, 0, 0, 0, 0, 0, 0, 0, 0, 0, 0, 0, 0, 0, 0,
    0, 0, 0, 0, 0, 0, 0, 0, 0, 0, 0, 0, 0, 0, 0, 0,
    0, 0, 0, 0, 0, 0, 0, 0, 0, 0, 0, 0, 0, 0, 0, 0,
    0, 0, 0, 0, 0, 0, 0, 0, 0, 0, 0, 0, 0, 0, 0, 0,
    0, 0, 0, 0, 0, 0, 0, 0, 0, 0, 0, 0, 0, 0, 0, 0,
    0, 0, 0, 0, 0, 0, 0, 0, 0, 0, 0, 0, 0, 0, 0, 0,
    0, 0, 0, 0, 0, 0, 0, 0, 0, 0, 0, 0, 0, 0, 0, 0,
    0, 0, 0, 0, 0, 0, 0, 0, 0, 0, 0, 0, 0, 0, 0, 0,
    0, 0, 0, 0, 0, 0, 0, 0, 0, 0, 0, 0, 0, 0, 0, 0,
    0, 0, 0, 0, 0, 0, 0, 0, 0, 0, 0, 0, 0, 0, 0, 0,
    0, 0, 0, 0, 0, 0, 0, 0, 0, 0, 0, 0, 0, 0, 0, 0,
    0, 0, 0, 0, 0, 0, 0, 0, 0, 0, 0, 0, 0, 0, 0, 0,
    0, 0, 0, 0, 0, 0, 0, 0, 0, 0, 0, 0, 0, 0, 0, 0,
    128, 123, 118, 113, 108, 103, 99, 95, 91, 87, 83, 80, 76, 73, 70, 67,
    64, 61, 59, 56, 54, 52, 49, 47, 45, 43, 41, 40, 38, 36, 35, 33,
    32, 31, 29, 28, 27, 26, 24, 23, 22, 21, 21, 20, 19, 18, 17, 16,
    16, 15, 14, 14, 13, 13, 12, 11, 11, 11, 10, 10, 9, 9, 8, 8,
    8, 7, 7, 7, 6, 6, 6, 6, 5, 5, 5, 5, 4, 4, 4, 4,
    4, 3, 3, 3, 3, 3, 3, 3, 2, 2, 2, 2, 2, 2, 2, 2,
    2, 1, 1, 1, 1, 1, 1, 1, 1, 1, 1, 1, 1, 1, 1, 1,
    1, 0, 0, 0, 0, 0, 0, 0, 0, 0, 0, 0, 0, 0, 0, 0,
    182, 174, 167, 159, 153, 146, 140, 134, 128, 123, 118, 113, 108, 103, 99, 95,
    91, 87, 83, 80, 76, 73, 70, 67, 64, 61, 59, 56, 54, 52, 49, 47,
    45, 43, 41, 40, 38, 36, 35, 33, 32, 31, 29, 28, 27, 26, 24, 23,
    22, 21, 21, 20, 19, 18, 17, 16, 16, 15, 14, 14, 13, 13, 12, 11,
    11, 11, 10, 10, 9, 9, 8, 8, 8, 7, 7, 7, 6, 6, 6, 6,
    5, 5, 5, 5, 4, 4, 4, 4, 4, 3, 3, 3, 3, 3, 3, 3,
    2, 2, 2, 2, 2, 2, 2, 2, 2, 1, 1, 1, 1, 1, 1, 1,
    1, 1, 1, 1, 1, 1, 1, 1, 1, 0, 0, 0, 0, 0, 0, 0,
    257, 246, 235, 225, 216, 207, 198, 190, 182, 174, 167, 159, 153, 146, 140, 134,
    128, 123, 118, 113, 108, 103, 99, 95, 91, 87, 83, 80, 76, 73, 70, 67,
    64, 61, 59, 56, 54, 52, 49, 47, 45, 43, 41, 40, 38, 36, 35, 33,
    32, 31, 29, 28, 27, 26, 24, 23, 22, 21, 21, 20, 19, 18, 17, 16,
    16, 15, 14, 14, 13, 13, 12, 11, 11, 11, 10, 10, 9, 9, 8, 8,
    8, 7, 7, 7, 6, 6, 6, 6, 5, 5, 5, 5, 4, 4, 4, 4,
    4, 3, 3, 3, 3, 3, 3, 3, 2, 2, 2, 2, 2, 2, 2, 2,
    2, 1, 1, 1, 1, 1, 1, 1, 1, 1, 1, 1, 1, 1, 1, 1,
    363, 347, 333, 319, 305, 292, 280, 268, 257, 246, 235, 225, 216, 207, 198, 190,
    182, 174, 167, 159, 153, 146, 140, 134, 128, 123, 118, 113, 108, 103, 99, 95,
    91, 87, 83, 80, 76, 73, 70, 67, 64, 61, 59, 56, 54, 52, 49, 47,
    45, 43, 41, 40, 38, 36, 35, 33, 32, 31, 29, 28, 27, 26, 24, 23,
    22, 21, 21, 20, 19, 18, 17, 16, 16, 15, 14, 14, 13, 13, 12, 11,
    11, 11, 10, 10, 9, 9, 8, 8, 8, 7, 7, 7, 6, 6, 6, 6,
    5, 5, 5, 5, 4, 4, 4, 4, 4, 3, 3, 3, 3, 3, 3, 3,
    2, 2, 2, 2, 2, 2, 2, 2, 2, 1, 1, 1, 1, 1, 1, 1,
    513, 491, 470, 450, 431, 413, 396, 379, 363, 347, 333, 319, 305, 292, 280, 268,
    257, 246, 235, 225, 216, 207, 198, 190, 182, 174, 167, 159, 153, 146, 140, 134,
    128, 123, 118, 113, 108, 103, 99, 95, 91, 87, 83, 80, 76, 73, 70, 67,
    64, 61, 59, 56, 54, 52, 49, 47, 45, 43, 41, 40, 38, 36, 35, 33,
    32, 31, 29, 28, 27, 26, 24, 23, 22, 21, 21, 20, 19, 18, 17, 16,
    16, 15, 14, 14, 13, 13, 12, 11, 11, 11, 10, 10, 9, 9, 8, 8,
    8, 7, 7, 7, 6, 6, 6, 6, 5, 5, 5, 5, 4, 4, 4, 4,
    4, 3, 3, 3, 3, 3, 3, 3, 2, 2, 2, 2, 2, 2, 2, 2,
    724, 694, 664, 636, 609, 584, 559, 535, 513, 491, 470, 450, 431, 413, 396, 379,
    363, 347, 333, 319, 305, 292, 280, 268, 257, 246, 235, 225, 216, 207, 198, 190,
    182, 174, 167, 159, 153, 146, 140, 134, 128, 123, 118, 113, 108, 103, 99, 95,
    91, 87, 83, 80, 76, 73, 70, 67, 64, 61, 59, 56, 54, 52, 49, 47,
    45, 43, 41, 40, 38, 36, 35, 33, 32, 31, 29, 28, 27, 26, 24, 23,
    22, 21, 21, 20, 19, 18, 17, 16, 16, 15, 14, 14, 13, 13, 12, 11,
    11, 11, 10, 10, 9, 9, 8, 8, 8, 7, 7, 7, 6, 6, 6, 6,
    5, 5, 5, 5, 4, 4, 4, 4, 4, 3, 3, 3, 3, 3, 3, 3>>

AttackStepTable ==
  <<0, 0, 0, 0, 244, 305, 366, 427,
    489, 611, 733, 855, 978, 1222, 1467, 1711,
    1956, 2445, 2934, 3423, 3912, 4890, 5868, 6846,
    7825, 9779, 11736, 13689, 15650, 19554, 23465, 27369,
    31298, 39109, 46923, 54738, 62597, 78198, 93703, 109320,
    125246, 156076, 187406, 218014, 250286, 310559, 372976, 436029,
    500573, 611141, 714433, 800917, 884734, 1079250, 1289612, 1463214,
    1672245, 2084579, 2579225, 3043486, 3381651, 3381651, 3381651, 67108864>>

DecayReleaseStepTable ==
  <<0, 0, 0, 0, 17, 21, 25, 29,
    34, 42, 51, 59, 68, 85, 102, 119,
    136, 170, 204, 238, 273, 341, 409, 477,
    546, 682, 819, 955, 1092, 1364, 1637, 1910,
    2184, 2729, 3274, 3820, 4368, 5457, 6539, 7629,
    8741, 10892, 13079, 15215, 17467, 21674, 26030, 30431,
    34935, 42652, 49861, 55897, 61747, 75322, 90004, 102120,
    116709, 145486, 180008, 212410, 236011, 236011, 236011, 236011>>

TotalLevelSteps ==
  <<-152, 76>>

LinearToExpVolume ==
  <<0, 0, 0, 0, 0, 0, 0, 0, 0, 0, 0, 0, 0, 0, 0, 0,
    0, 0, 0, 0, 0, 0, 0, 0, 0, 0, 0, 0, 0, 0, 0, 0,
    0, 0, 0, 0, 0, 0, 0, 0, 0, 0, 0, 0, 0, 0, 0, 0,
    0, 0, 0, 0, 0, 0, 0, 0, 0, 0, 0, 0, 0, 0, 0, 0,
    0, 0, 0, 0, 0, 0, 0, 0, 0, 0, 0, 0, 0, 0, 0, 0,
    0, 0, 0, 0, 0, 0, 0, 0, 0, 0, 0, 0, 0, 0, 0, 0,
    0, 0, 0, 0, 0, 0, 0, 0, 0, 0, 0, 0, 0, 0, 0, 0,
    0, 0, 0, 0, 0, 0, 0, 0, 0, 0, 0, 0, 0, 0, 0, 0,
    0, 0, 0, 0, 0, 0, 0, 0, 0, 0, 0, 0, 0, 0, 0, 0,
    0, 0, 0, 0, 0, 0, 0, 0, 0, 0, 0, 0, 0, 0, 0, 0,
    0, 0, 0, 0, 0, 0, 0, 0, 0, 0, 0, 0, 0, 0, 0, 0,
    0, 0, 0, 0, 0, 0, 0, 0, 0, 0, 0, 0, 0, 0, 0, 0,
    0, 0, 0, 0, 0, 0, 0, 0, 0, 0, 0, 0, 0, 0, 0, 0,
    0, 0, 0, 0, 0, 0, 0, 0, 0, 0, 0, 0, 0, 0, 0, 0,
    0, 0, 0, 0, 0, 0, 0, 0, 0, 0, 0, 0, 0, 0, 0, 0,
    0, 0, 0, 0, 0, 0, 0, 0, 0, 0, 0, 0, 0, 0, 1, 1,
    1, 1, 1, 1, 1, 1, 1, 1, 1, 1, 1, 1, 1, 1, 1, 1,
    1, 1, 1, 1, 1, 1, 1, 1, 1, 1, 1, 1, 1, 1, 1, 1,
    1, 1, 1, 1, 1, 1, 1, 1, 1, 1, 1, 1, 1, 1, 1, 1,
    1, 1, 1, 1, 1, 1, 1, 1, 1, 1, 1, 1, 1, 1, 2, 2,
    2, 2, 2, 2, 2, 2, 2, 2, 2, 2, 2, 2, 2, 2, 2, 2,
    2, 2, 2, 2, 2, 2, 2, 2, 2, 2, 2, 2, 2, 2, 2, 2,
    2, 2, 2, 2, 3, 3, 3, 3, 3, 3, 3, 3, 3, 3, 3, 3,
    3, 3, 3, 3, 3, 3, 3, 3, 3, 3, 3, 3, 3, 3, 4, 4,
    4, 4, 4, 4, 4, 4, 4, 4, 4, 4, 4, 4, 4, 4, 4, 4,
    4, 4, 4, 5, 5, 5, 5, 5, 5, 5, 5, 5, 5, 5, 5, 5,
    5, 5, 5, 5, 6, 6, 6, 6, 6, 6, 6, 6, 6, 6, 6, 6,
    6, 6, 7, 7, 7, 7, 7, 7, 7, 7, 7, 7, 7, 7, 7, 8,
    8, 8, 8, 8, 8, 8, 8, 8, 8, 9, 9, 9, 9, 9, 9, 9,
    9, 9, 9, 10, 10, 10, 10, 10, 10, 10, 10, 10, 11, 11, 11, 11,
    11, 11, 11, 11, 12, 12, 12, 12, 12, 12, 12, 12, 13, 13, 13, 13,
    13, 13, 14, 14, 14, 14, 14, 14, 14, 15, 15, 15, 15, 15, 15, 16,
    16, 16, 16, 16, 17, 17, 17, 17, 17, 17, 18, 18, 18, 18, 18, 19,
    19, 19, 19, 20, 20, 20, 20, 20, 21, 21, 21, 21, 22, 22, 22, 22,
    23, 23, 23, 23, 24, 24, 24, 24, 25, 25, 25, 25, 26, 26, 26, 27,
    27, 27, 27, 28, 28, 28, 29, 29, 29, 30, 30, 30, 31, 31, 31, 32,
    32, 32, 33, 33, 33, 34, 34, 35, 35, 35, 36, 36, 37, 37, 37, 38,
    38, 39, 39, 39, 40, 40, 41, 41, 42, 42, 43, 43, 44, 44, 44, 45,
    45, 46, 46, 47, 47, 48, 49, 49, 50, 50, 51, 51, 52, 52, 53, 54,
    54, 55, 55, 56, 57, 57, 58, 58, 59, 60, 60, 61, 62, 62, 63, 64,
    64, 65, 66, 67, 67, 68, 69, 70, 70, 71, 72, 73, 73, 74, 75, 76,
    77, 77, 78, 79, 80, 81, 82, 83, 84, 85, 85, 86, 87, 88, 89, 90,
    91, 92, 93, 94, 95, 96, 97, 98, 99, 101, 102, 103, 104, 105, 106, 107,
    108, 110, 111, 112, 113, 115, 116, 117, 118, 120, 121, 122, 124, 125, 126, 128,
    129, 130, 132, 133, 135, 136, 138, 139, 141, 142, 144, 145, 147, 149, 150, 152,
    153, 155, 157, 159, 160, 162, 164, 166, 167, 169, 171, 173, 175, 177, 179, 180,
    182, 184, 186, 188, 191, 193, 195, 197, 199, 201, 203, 206, 208, 210, 212, 215,
    217, 219, 222, 224, 227, 229, 231, 234, 237, 239, 242, 244, 247, 250, 252, 255,
    258, 261, 264, 266, 269, 272, 275, 278, 281, 284, 287, 291, 294, 297, 300, 303,
    307, 310, 313, 317, 320, 324, 327, 331, 334, 338, 342, 345, 349, 353, 357, 361,
    365, 369, 373, 377, 381, 385, 389, 393, 397, 402, 406, 411, 415, 420, 424, 429,
    433, 438, 443, 448, 453, 457, 462, 467, 472, 478, 483, 488, 493, 499, 504, 510,
    515, 521, 526, 532, 538, 544, 550, 556, 562, 568, 574, 580, 586, 593, 599, 606,
    612, 619, 626, 633, 639, 646, 653, 660, 668, 675, 682, 690, 697, 705, 712, 720,
    728, 736, 744, 752, 760, 768, 777, 785, 794, 802, 811, 820, 829, 838, 847, 856,
    865, 875, 884, 894, 903, 913, 923, 933, 943, 953, 964, 974, 985, 996, 1006, 1017,
    1028, 1040, 1051, 1062, 1074, 1085, 1097, 1109, 1121, 1133, 1146, 1158, 1171, 1183, 1196, 1209,
    1222, 1236, 1249, 1263, 1276, 1290, 1304, 1318, 1333, 1347, 1362, 1376, 1391, 1407, 1422, 1437,
    1453, 1469, 1485, 1501, 1517, 1533, 1550, 1567, 1584, 1601, 1618, 1636, 1654, 1672, 1690, 1708,
    1727, 1746, 1764, 1784, 1803, 1823, 1842, 1862, 1883, 1903, 1924, 1945, 1966, 1987, 2009, 2030,
    2052, 2075, 2097, 2120, 2143, 2166, 2190, 2213, 2237, 2262, 2286, 2311, 2336, 2362, 2387, 2413,
    2439, 2466, 2493, 2520, 2547, 2575, 2603, 2631, 2659, 2688, 2717, 2747, 2777, 2807, 2837, 2868,
    2899, 2931, 2963, 2995, 3027, 3060, 3093, 3127, 3161, 3195, 3230, 3265, 3300, 3336, 3372, 3409,
    3446, 3483, 3521, 3559, 3598, 3637, 3676, 3716, 3757, 3797, 3839, 3880, 3922, 3965, 4008, 4052>>

PitchScaleTables ==
  <<
  <<256, 256, 256, 256, 256, 256, 256, 256, 256, 256, 256, 256, 256, 256, 256, 256, 256, 256, 256, 256, 256, 256, 256, 256, 256, 256, 256, 256, 256, 256, 256, 256,
    256, 256, 256, 256, 256, 256, 256, 256, 256, 256, 256, 256, 256, 256, 256, 256, 256, 256, 256, 256, 256, 256, 256, 256, 256, 256, 256, 256, 256, 256, 256, 256,
    256, 256, 256, 256, 256, 256, 256, 256, 256, 256, 256, 256, 256, 256, 256, 256, 256, 256, 256, 256, 256, 256, 256, 256, 256, 256, 256, 256, 256, 256, 256, 256,
    256, 256, 256, 256, 256, 256, 256, 256, 256, 256, 256, 256, 256, 256, 256, 256, 256, 256, 256, 256, 256, 256, 256, 256, 256, 256, 256, 256, 256, 256, 256, 256,
    256, 256, 256, 256, 256, 256, 256, 256, 256, 256, 256, 256, 256, 256, 256, 256, 256, 256, 256, 256, 256, 256, 256, 256, 256, 256, 256, 256, 256, 256, 256, 256,
    256, 256, 256, 256, 256, 256, 256, 256, 256, 256, 256, 256, 256, 256, 256, 256, 256, 256, 256, 256, 256, 256, 256, 256, 256, 256, 256, 256, 256, 256, 256, 256,
    256, 256, 256, 256, 256, 256, 256, 256, 256, 256, 256, 256, 256, 256, 256, 256, 256, 256, 256, 256, 256, 256, 256, 256, 256, 256, 256, 256, 256, 256, 256, 256,
    256, 256, 256, 256, 256, 256, 256, 256, 256, 256, 256, 256, 256, 256, 256, 256, 256, 256, 256, 256, 256, 256, 256, 256, 256, 256, 256, 256, 256, 256, 256, 256>>,
  <<255, 255, 255, 255, 255, 255, 255, 255, 255, 255, 255, 255, 255, 255, 255, 255, 255, 255, 255, 255, 255, 255, 255, 255, 255, 255, 255, 255, 255, 255, 255, 255,
    255, 255, 255, 255, 255, 255, 255, 255, 255, 255, 255, 255, 255, 255, 255, 255, 255, 255, 255, 255, 255, 255, 255, 255, 255, 255, 255, 255, 255, 255, 255, 255,
    255, 255, 255, 255, 255, 255, 255, 255, 255, 255, 255, 255, 255, 255, 255, 255, 255, 255, 255, 255, 255, 255, 255, 255, 255, 255, 255, 255, 255, 255, 255, 255,
    255, 255, 255, 255, 255, 255, 255, 255, 255, 255, 255, 255, 255, 255, 255, 255, 255, 255, 255, 255, 255, 255, 255, 255, 255, 255, 255, 255, 255, 255, 255, 255,
    256, 256, 256, 256, 256, 256, 256, 256, 256, 256, 256, 256, 256, 256, 256, 256, 256, 256, 256, 256, 256, 256, 256, 256, 256, 256, 256, 256, 256, 256, 256, 256,
    256, 256, 256, 256, 256, 256, 256, 256, 256, 256, 256, 256, 256, 256, 256, 256, 256, 256, 256, 256, 256, 256, 256, 256, 256, 256, 256, 256, 256, 256, 256, 256,
    256, 256, 256, 256, 256, 256, 256, 256, 256, 256, 256, 256, 256, 256, 256, 256, 256, 256, 256, 256, 256, 256, 256, 256, 256, 256, 256, 256, 256, 256, 256, 256,
    256, 256, 256, 256, 256, 256, 256, 256, 256, 256, 256, 256, 256, 256, 256, 256, 256, 256, 256, 256, 256, 256, 256, 256, 256, 256, 256, 256, 256, 256, 256, 256>>,
  <<255, 255, 255, 255, 255, 255, 255, 255, 255, 255, 255, 255, 255, 255, 255, 255, 255, 255, 255, 255, 255, 255, 255, 255, 255, 255, 255, 255, 255, 255, 255, 255,
    255, 255, 255, 255, 255, 255, 255, 255, 255, 255, 255, 255, 255, 255, 255, 255, 255, 255, 255, 255, 255, 255, 255, 255, 255, 255, 255, 255, 255, 255, 255, 255,
    255, 255, 255, 255, 255, 255, 255, 255, 255, 255, 255, 255, 255, 255, 255, 255, 255, 255, 255, 255, 255, 255, 255, 255, 255, 255, 255, 255, 255, 255, 255, 255,
    255, 255, 255, 255, 255, 255, 255, 255, 255, 255, 255, 255, 255, 255, 255, 255, 255, 255, 255, 255, 255, 255, 255, 255, 255, 255, 255, 255, 255, 255, 255, 255,
    256, 256, 256, 256, 256, 256, 256, 256, 256, 256, 256, 256, 256, 256, 256, 256, 256, 256, 256, 256, 256, 256, 256, 256, 256, 256, 256, 256, 256, 256, 256, 256,
    256, 256, 256, 256, 256, 256, 256, 256, 256, 256, 256, 256, 256, 256, 256, 256, 256, 256, 256, 256, 256, 256, 256, 256, 256, 256, 256, 256, 256, 256, 256, 256,
    256, 256, 256, 256, 256, 256, 256, 256, 256, 256, 256, 256, 256, 256, 256, 256, 256, 256, 256, 256, 256, 256, 256, 256, 256, 256, 256, 256, 256, 256, 256, 256,
    256, 256, 256, 256, 256, 256, 256, 256, 256, 256, 256, 256, 256, 256, 256, 256, 256, 256, 256, 256, 256, 256, 256, 256, 256, 256, 256, 256, 256, 256, 256, 256>>,
  <<255, 255, 255, 255, 255, 255, 255, 255, 255, 255, 255, 255, 255, 255, 255, 255, 255, 255, 255, 255, 255, 255, 255, 255, 255, 255, 255, 255, 255, 255, 255, 255,
    255, 255, 255, 255, 255, 255, 255, 255, 255, 255, 255, 255, 255, 255, 255, 255, 255, 255, 255, 255, 255, 255, 255, 255, 255, 255, 255, 255, 255, 255, 255, 255,
    255, 255, 255, 255, 255, 255, 255, 255, 255, 255, 255, 255, 255, 255, 255, 255, 255, 255, 255, 255, 255, 255, 255, 255, 255, 255, 255, 255, 255, 255, 255, 255,
    255, 255, 255, 255, 255, 255, 255, 255, 255, 255, 255, 255, 255, 255, 255, 255, 255, 255, 255, 255, 255, 255, 255, 255, 255, 255, 255, 255, 255, 255, 255, 255,
    256, 256, 256, 256, 256, 256, 256, 256, 256, 256, 256, 256, 256, 256, 256, 256, 256, 256, 256, 256, 256, 256, 256, 256, 256, 256, 256, 256, 256, 256, 256, 256,
    256, 256, 256, 256, 256, 256, 256, 256, 256, 256, 256, 256, 256, 256, 256, 256, 256, 256, 256, 256, 256, 256, 256, 256, 256, 256, 256, 256, 256, 256, 256, 256,
    256, 256, 256, 256, 256, 256, 256, 256, 256, 256, 256, 256, 256, 256, 256, 256, 256, 256, 256, 256, 256, 256, 256, 256, 256, 256, 256, 256, 256, 256, 256, 256,
    256, 256, 256, 256, 256, 256, 256, 256, 256, 256, 256, 256, 256, 256, 256, 256, 256, 256, 256, 256, 256, 256, 256, 256, 256, 256, 256, 256, 256, 256, 256, 256>>,
  <<254, 254, 254, 254, 254, 254, 254, 254, 254, 254, 254, 254, 254, 254, 254, 254, 254, 254, 254, 254, 254, 254, 254, 254, 254, 254, 254, 254, 254, 254, 254, 254,
    254, 254, 254, 254, 254, 254, 254, 254, 254, 254, 254, 255, 255, 255, 255, 255, 255, 255, 255, 255, 255, 255, 255, 255, 255, 255, 255, 255, 255, 255, 255, 255,
    255, 255, 255, 255, 255, 255, 255, 255, 255, 255, 255, 255, 255, 255, 255, 255, 255, 255, 255, 255, 255, 255, 255, 255, 255, 255, 255, 255, 255, 255, 255, 255,
    255, 255, 255, 255, 255, 255, 255, 255, 255, 255, 255, 255, 255, 255, 255, 255, 255, 255, 255, 255, 255, 255, 255, 255, 255, 255, 255, 255, 255, 255, 255, 255,
    256, 256, 256, 256, 256, 256, 256, 256, 256, 256, 256, 256, 256, 256, 256, 256, 256, 256, 256, 256, 256, 256, 256, 256, 256, 256, 256, 256, 256, 256, 256, 256,
    256, 256, 256, 256, 256, 256, 256, 256, 256, 256, 256, 256, 256, 256, 256, 256, 256, 256, 256, 256, 256, 256, 256, 256, 256, 256, 256, 256, 256, 256, 256, 256,
    256, 256, 256, 256, 256, 256, 256, 256, 256, 256, 256, 256, 256, 256, 256, 256, 256, 256, 256, 256, 256, 256, 257, 257, 257, 257, 257, 257, 257, 257, 257, 257,
    257, 257, 257, 257, 257, 257, 257, 257, 257, 257, 257, 257, 257, 257, 257, 257, 257, 257, 257, 257, 257, 257, 257, 257, 257, 257, 257, 257, 257, 257, 257, 257>>,
  <<253, 253, 253, 253, 253, 253, 253, 253, 253, 253, 253, 253, 253, 253, 253, 253, 253, 253, 253, 253, 253, 253, 253, 253, 253, 253, 253, 253, 253, 253, 253, 253,
    253, 253, 253, 253, 253, 253, 253, 253, 253, 253, 254, 254, 254, 254, 254, 254, 254, 254, 254, 254, 254, 254, 254, 254, 254, 254, 254, 254, 254, 254, 254, 254,
    254, 254, 254, 254, 254, 254, 254, 254, 254, 254, 254, 254, 254, 254, 254, 254, 254, 254, 254, 254, 254, 255, 255, 255, 255, 255, 255, 255, 255, 255, 255, 255,
    255, 255, 255, 255, 255, 255, 255, 255, 255, 255, 255, 255, 255, 255, 255, 255, 255, 255, 255, 255, 255, 255, 255, 255, 255, 255, 255, 255, 255, 255, 255, 255,
    256, 256, 256, 256, 256, 256, 256, 256, 256, 256, 256, 256, 256, 256, 256, 256, 256, 256, 256, 256, 256, 256, 256, 256, 256, 256, 256, 256, 256, 256, 256, 256,
    256, 256, 256, 256, 256, 256, 256, 256, 256, 256, 256, 257, 257, 257, 257, 257, 257, 257, 257, 257, 257, 257, 257, 257, 257, 257, 257, 257, 257, 257, 257, 257,
    257, 257, 257, 257, 257, 257, 257, 257, 257, 257, 257, 257, 257, 257, 257, 257, 257, 257, 257, 257, 257, 257, 258, 258, 258, 258, 258, 258, 258, 258, 258, 258,
    258, 258, 258, 258, 258, 258, 258, 258, 258, 258, 258, 258, 258, 258, 258, 258, 258, 258, 258, 258, 258, 258, 258, 258, 258, 258, 258, 258, 258, 258, 258, 258>>,
  <<250, 250, 250, 250, 250, 250, 250, 250, 250, 250, 250, 250, 250, 250, 250, 250, 250, 250, 250, 250, 251, 251, 251, 251, 251, 251, 251, 251, 251, 251, 251, 251,
    251, 251, 251, 251, 251, 251, 251, 251, 251, 251, 252, 252, 252, 252, 252, 252, 252, 252, 252, 252, 252, 252, 252, 252, 252, 252, 252, 252, 252, 252, 252, 253,
    253, 253, 253, 253, 253, 253, 253, 253, 253, 253, 253, 253, 253, 253, 253, 253, 253, 253, 253, 253, 253, 254, 254, 254, 254, 254, 254, 254, 254, 254, 254, 254,
    254, 254, 254, 254, 254, 254, 254, 254, 254, 254, 254, 255, 255, 255, 255, 255, 255, 255, 255, 255, 255, 255, 255, 255, 255, 255, 255, 255, 255, 255, 255, 255,
    256, 256, 256, 256, 256, 256, 256, 256, 256, 256, 256, 256, 256, 256, 256, 256, 256, 256, 256, 256, 256, 256, 257, 257, 257, 257, 257, 257, 257, 257, 257, 257,
    257, 257, 257, 257, 257, 257, 257, 257, 257, 257, 257, 258, 258, 258, 258, 258, 258, 258, 258, 258, 258, 258, 258, 258, 258, 258, 258, 258, 258, 258, 258, 258,
    258, 259, 259, 259, 259, 259, 259, 259, 259, 259, 259, 259, 259, 259, 259, 259, 259, 259, 259, 259, 259, 259, 260, 260, 260, 260, 260, 260, 260, 260, 260, 260,
    260, 260, 260, 260, 260, 260, 260, 260, 260, 260, 260, 261, 261, 261, 261, 261, 261, 261, 261, 261, 261, 261, 261, 261, 261, 261, 261, 261, 261, 261, 261, 261>>,
  <<244, 244, 244, 244, 244, 244, 245, 245, 245, 245, 245, 245, 245, 245, 245, 245, 245, 246, 246, 246, 246, 246, 246, 246, 246, 246, 246, 246, 247, 247, 247, 247,
    247, 247, 247, 247, 247, 247, 247, 247, 248, 248, 248, 248, 248, 248, 248, 248, 248, 248, 248, 249, 249, 249, 249, 249, 249, 249, 249, 249, 249, 249, 250, 250,
    250, 250, 250, 250, 250, 250, 250, 250, 250, 251, 251, 251, 251, 251, 251, 251, 251, 251, 251, 251, 252, 252, 252, 252, 252, 252, 252, 252, 252, 252, 252, 252,
    253, 253, 253, 253, 253, 253, 253, 253, 253, 253, 253, 254, 254, 254, 254, 254, 254, 254, 254, 254, 254, 254, 255, 255, 255, 255, 255, 255, 255, 255, 255, 255,
    256, 256, 256, 256, 256, 256, 256, 256, 256, 256, 256, 257, 257, 257, 257, 257, 257, 257, 257, 257, 257, 257, 258, 258, 258, 258, 258, 258, 258, 258, 258, 258,
    258, 259, 259, 259, 259, 259, 259, 259, 259, 259, 259, 259, 260, 260, 260, 260, 260, 260, 260, 260, 260, 260, 260, 261, 261, 261, 261, 261, 261, 261, 261, 261,
    261, 262, 262, 262, 262, 262, 262, 262, 262, 262, 262, 262, 263, 263, 263, 263, 263, 263, 263, 263, 263, 263, 264, 264, 264, 264, 264, 264, 264, 264, 264, 264,
    264, 265, 265, 265, 265, 265, 265, 265, 265, 265, 265, 265, 266, 266, 266, 266, 266, 266, 266, 266, 266, 266, 267, 267, 267, 267, 267, 267, 267, 267, 267, 267>>
  >>

AmplitudeScaleTables ==
  <<
  <<256, 256, 256, 256, 256, 256, 256, 256, 256, 256, 256, 256, 256, 256, 256, 256, 256, 256, 256, 256, 256, 256, 256, 256, 256, 256, 256, 256, 256, 256, 256, 256,
    256, 256, 256, 256, 256, 256, 256, 256, 256, 256, 256, 256, 256, 256, 256, 256, 256, 256, 256, 256, 256, 256, 256, 256, 256, 256, 256, 256, 256, 256, 256, 256,
    256, 256, 256, 256, 256, 256, 256, 256, 256, 256, 256, 256, 256, 256, 256, 256, 256, 256, 256, 256, 256, 256, 256, 256, 256, 256, 256, 256, 256, 256, 256, 256,
    256, 256, 256, 256, 256, 256, 256, 256, 256, 256, 256, 256, 256, 256, 256, 256, 256, 256, 256, 256, 256, 256, 256, 256, 256, 256, 256, 256, 256, 256, 256, 256,
    256, 256, 256, 256, 256, 256, 256, 256, 256, 256, 256, 256, 256, 256, 256, 256, 256, 256, 256, 256, 256, 256, 256, 256, 256, 256, 256, 256, 256, 256, 256, 256,
    256, 256, 256, 256, 256, 256, 256, 256, 256, 256, 256, 256, 256, 256, 256, 256, 256, 256, 256, 256, 256, 256, 256, 256, 256, 256, 256, 256, 256, 256, 256, 256,
    256, 256, 256, 256, 256, 256, 256, 256, 256, 256, 256, 256, 256, 256, 256, 256, 256, 256, 256, 256, 256, 256, 256, 256, 256, 256, 256, 256, 256, 256, 256, 256,
    256, 256, 256, 256, 256, 256, 256, 256, 256, 256, 256, 256, 256, 256, 256, 256, 256, 256, 256, 256, 256, 256, 256, 256, 256, 256, 256, 256, 256, 256, 256, 256>>,
  <<256, 255, 255, 255, 255, 255, 255, 255, 255, 255, 255, 255, 255, 255, 255, 255, 255, 255, 255, 255, 255, 255, 254, 254, 254, 254, 254, 254, 254, 254, 254, 254,
    254, 254, 254, 254, 254, 254, 254, 254, 254, 254, 254, 254, 253, 253, 253, 253, 253, 253, 253, 253, 253, 253, 253, 253, 253, 253, 253, 253, 253, 253, 253, 253,
    253, 253, 252, 252, 252, 252, 252, 252, 252, 252, 252, 252, 252, 252, 252, 252, 252, 252, 252, 252, 252, 252, 252, 252, 251, 251, 251, 251, 251, 251, 251, 251,
    251, 251, 251, 251, 251, 251, 251, 251, 251, 251, 251, 251, 251, 251, 250, 250, 250, 250, 250, 250, 250, 250, 250, 250, 250, 250, 250, 250, 250, 250, 250, 250,
    250, 250, 250, 250, 249, 249, 249, 249, 249, 249, 249, 249, 249, 249, 249, 249, 249, 249, 249, 249, 249, 249, 249, 249, 249, 249, 249, 248, 248, 248, 248, 248,
    248, 248, 248, 248, 248, 248, 248, 248, 248, 248, 248, 248, 248, 248, 248, 248, 248, 247, 247, 247, 247, 247, 247, 247, 247, 247, 247, 247, 247, 247, 247, 247,
    247, 247, 247, 247, 247, 247, 247, 246, 246, 246, 246, 246, 246, 246, 246, 246, 246, 246, 246, 246, 246, 246, 246, 246, 246, 246, 246, 246, 246, 246, 245, 245,
    245, 245, 245, 245, 245, 245, 245, 245, 245, 245, 245, 245, 245, 245, 245, 245, 245, 245, 245, 245, 245, 244, 244, 244, 244, 244, 244, 244, 244, 244, 244, 244>>,
  <<256, 255, 255, 255, 255, 255, 255, 255, 255, 255, 255, 254, 254, 254, 254, 254, 254, 254, 254, 254, 254, 254, 253, 253, 253, 253, 253, 253, 253, 253, 253, 253,
    253, 252, 252, 252, 252, 252, 252, 252, 252, 252, 252, 252, 251, 251, 251, 251, 251, 251, 251, 251, 251, 251, 251, 250, 250, 250, 250, 250, 250, 250, 250, 250,
    250, 250, 249, 249, 249, 249, 249, 249, 249, 249, 249, 249, 249, 249, 248, 248, 248, 248, 248, 248, 248, 248, 248, 248, 248, 247, 247, 247, 247, 247, 247, 247,
    247, 247, 247, 247, 246, 246, 246, 246, 246, 246, 246, 246, 246, 246, 246, 245, 245, 245, 245, 245, 245, 245, 245, 245, 245, 245, 245, 244, 244, 244, 244, 244,
    244, 244, 244, 244, 244, 244, 243, 243, 243, 243, 243, 243, 243, 243, 243, 243, 243, 242, 242, 242, 242, 242, 242, 242, 242, 242, 242, 242, 242, 241, 241, 241,
    241, 241, 241, 241, 241, 241, 241, 241, 240, 240, 240, 240, 240, 240, 240, 240, 240, 240, 240, 240, 239, 239, 239, 239, 239, 239, 239, 239, 239, 239, 239, 238,
    238, 238, 238, 238, 238, 238, 238, 238, 238, 238, 238, 237, 237, 237, 237, 237, 237, 237, 237, 237, 237, 237, 237, 236, 236, 236, 236, 236, 236, 236, 236, 236,
    236, 236, 236, 235, 235, 235, 235, 235, 235, 235, 235, 235, 235, 235, 234, 234, 234, 234, 234, 234, 234, 234, 234, 234, 234, 234, 233, 233, 233, 233, 233, 233>>,
  <<256, 255, 255, 255, 255, 255, 254, 254, 254, 254, 254, 254, 253, 253, 253, 253, 253, 253, 252, 252, 252, 252, 252, 252, 251, 251, 251, 251, 251, 251, 250, 250,
    250, 250, 250, 250, 249, 249, 249, 249, 249, 249, 248, 248, 248, 248, 248, 248, 247, 247, 247, 247, 247, 247, 246, 246, 246, 246, 246, 246, 245, 245, 245, 245,
    245, 245, 244, 244, 244, 244, 244, 244, 243, 243, 243, 243, 243, 243, 242, 242, 242, 242, 242, 242, 241, 241, 241, 241, 241, 241, 240, 240, 240, 240, 240, 240,
    239, 239, 239, 239, 239, 239, 238, 238, 238, 238, 238, 238, 238, 237, 237, 237, 237, 237, 237, 236, 236, 236, 236, 236, 236, 235, 235, 235, 235, 235, 235, 234,
    234, 234, 234, 234, 234, 234, 233, 233, 233, 233, 233, 233, 232, 232, 232, 232, 232, 232, 231, 231, 231, 231, 231, 231, 231, 230, 230, 230, 230, 230, 230, 229,
    229, 229, 229, 229, 229, 229, 228, 228, 228, 228, 228, 228, 227, 227, 227, 227, 227, 227, 227, 226, 226, 226, 226, 226, 226, 225, 225, 225, 225, 225, 225, 225,
    224, 224, 224, 224, 224, 224, 223, 223, 223, 223, 223, 223, 223, 222, 222, 222, 222, 222, 222, 222, 221, 221, 221, 221, 221, 221, 220, 220, 220, 220, 220, 220,
    220, 219, 219, 219, 219, 219, 219, 219, 218, 218, 218, 218, 218, 218, 218, 217, 217, 217, 217, 217, 217, 217, 216, 216, 216, 216, 216, 216, 215, 215, 215, 215>>,
  <<256, 255, 255, 254, 254, 254, 253, 253, 253, 252, 252, 252, 251, 251, 251, 250, 250, 250, 249, 249, 249, 248, 248, 248, 247, 247, 247, 246, 246, 246, 245, 245,
    245, 244, 244, 244, 243, 243, 243, 242, 242, 242, 241, 241, 241, 240, 240, 240, 239, 239, 239, 238, 238, 238, 238, 237, 237, 237, 236, 236, 236, 235, 235, 235,
    234, 234, 234, 233, 233, 233, 232, 232, 232, 231, 231, 231, 231, 230, 230, 230, 229, 229, 229, 228, 228, 228, 227, 227, 227, 227, 226, 226, 226, 225, 225, 225,
    224, 224, 224, 223, 223, 223, 223, 222, 222, 222, 221, 221, 221, 220, 220, 220, 220, 219, 219, 219, 218, 218, 218, 218, 217, 217, 217, 216, 216, 216, 215, 215,
    215, 215, 214, 214, 214, 213, 213, 213, 213, 212, 212, 212, 211, 211, 211, 211, 210, 210, 210, 209, 209, 209, 209, 208, 208, 208, 207, 207, 207, 207, 206, 206,
    206, 206, 205, 205, 205, 204, 204, 204, 204, 203, 203, 203, 202, 202, 202, 202, 201, 201, 201, 201, 200, 200, 200, 199, 199, 199, 199, 198, 198, 198, 198, 197,
    197, 197, 197, 196, 196, 196, 195, 195, 195, 195, 194, 194, 194, 194, 193, 193, 193, 193, 192, 192, 192, 192, 191, 191, 191, 191, 190, 190, 190, 189, 189, 189,
    189, 188, 188, 188, 188, 187, 187, 187, 187, 186, 186, 186, 186, 185, 185, 185, 185, 184, 184, 184, 184, 183, 183, 183, 183, 182, 182, 182, 182, 181, 181, 181>>,
  <<256, 255, 254, 253, 253, 252, 251, 251, 250, 249, 249, 248, 247, 247, 246, 245, 245, 244, 243, 243, 242, 241, 241, 240, 239, 239, 238, 238, 237, 236, 236, 235,
    234, 234, 233, 232, 232, 231, 231, 230, 229, 229, 228, 227, 227, 226, 226, 225, 224, 224, 223, 223, 222, 221, 221, 220, 220, 219, 218, 218, 217, 217, 216, 215,
    215, 214, 214, 213, 213, 212, 211, 211, 210, 210, 209, 209, 208, 207, 207, 206, 206, 205, 205, 204, 204, 203, 202, 202, 201, 201, 200, 200, 199, 199, 198, 198,
    197, 197, 196, 195, 195, 194, 194, 193, 193, 192, 192, 191, 191, 190, 190, 189, 189, 188, 188, 187, 187, 186, 186, 185, 185, 184, 184, 183, 183, 182, 182, 181,
    181, 180, 180, 179, 179, 178, 178, 177, 177, 176, 176, 175, 175, 174, 174, 174, 173, 173, 172, 172, 171, 171, 170, 170, 169, 169, 168, 168, 168, 167, 167, 166,
    166, 165, 165, 164, 164, 164, 163, 163, 162, 162, 161, 161, 160, 160, 160, 159, 159, 158, 158, 157, 157, 157, 156, 156, 155, 155, 154, 154, 154, 153, 153, 152,
    152, 152, 151, 151, 150, 150, 150, 149, 149, 148, 148, 148, 147, 147, 146, 146, 146, 145, 145, 144, 144, 144, 143, 143, 142, 142, 142, 141, 141, 141, 140, 140,
    139, 139, 139, 138, 138, 138, 137, 137, 136, 136, 136, 135, 135, 135, 134, 134, 133, 133, 133, 132, 132, 132, 131, 131, 131, 130, 130, 130, 129, 129, 128, 128>>,
  <<256, 254, 253, 251, 250, 249, 247, 246, 245, 243, 242, 241, 239, 238, 237, 236, 234, 233, 232, 231, 229, 228, 227, 226, 224, 223, 222, 221, 220, 218, 217, 216,
    215, 214, 213, 211, 210, 209, 208, 207, 206, 205, 204, 202, 201, 200, 199, 198, 197, 196, 195, 194, 193, 192, 191, 190, 189, 188, 187, 186, 185, 184, 183, 182,
    181, 180, 179, 178, 177, 176, 175, 174, 173, 172, 171, 170, 169, 168, 168, 167, 166, 165, 164, 163, 162, 161, 160, 160, 159, 158, 157, 156, 155, 154, 154, 153,
    152, 151, 150, 150, 149, 148, 147, 146, 146, 145, 144, 143, 142, 142, 141, 140, 139, 139, 138, 137, 136, 136, 135, 134, 133, 133, 132, 131, 131, 130, 129, 128,
    128, 127, 126, 126, 125, 124, 124, 123, 122, 122, 121, 120, 120, 119, 118, 118, 117, 117, 116, 115, 115, 114, 113, 113, 112, 112, 111, 110, 110, 109, 109, 108,
    107, 107, 106, 106, 105, 105, 104, 103, 103, 102, 102, 101, 101, 100, 100, 99, 99, 98, 97, 97, 96, 96, 95, 95, 94, 94, 93, 93, 92, 92, 91, 91,
    90, 90, 89, 89, 88, 88, 87, 87, 86, 86, 86, 85, 85, 84, 84, 83, 83, 82, 82, 81, 81, 81, 80, 80, 79, 79, 78, 78, 78, 77, 77, 76,
    76, 76, 75, 75, 74, 74, 73, 73, 73, 72, 72, 72, 71, 71, 70, 70, 70, 69, 69, 68, 68, 68, 67, 67, 67, 66, 66, 66, 65, 65, 65, 64>>,
  <<256, 253, 250, 247, 245, 242, 239, 237, 234, 232, 229, 227, 224, 222, 220, 217, 215, 213, 210, 208, 206, 204, 201, 199, 197, 195, 193, 191, 189, 187, 185, 183,
    181, 179, 177, 175, 173, 171, 169, 168, 166, 164, 162, 160, 159, 157, 155, 154, 152, 150, 149, 147, 146, 144, 142, 141, 139, 138, 136, 135, 133, 132, 131, 129,
    128, 126, 125, 124, 122, 121, 120, 118, 117, 116, 115, 113, 112, 111, 110, 109, 107, 106, 105, 104, 103, 102, 101, 100, 99, 97, 96, 95, 94, 93, 92, 91,
    90, 89, 88, 87, 86, 86, 85, 84, 83, 82, 81, 80, 79, 78, 78, 77, 76, 75, 74, 73, 73, 72, 71, 70, 70, 69, 68, 67, 67, 66, 65, 65,
    64, 63, 62, 62, 61, 60, 60, 59, 58, 58, 57, 57, 56, 55, 55, 54, 54, 53, 52, 52, 51, 51, 50, 50, 49, 49, 48, 48, 47, 47, 46, 46,
    45, 45, 44, 44, 43, 43, 42, 42, 41, 41, 40, 40, 39, 39, 39, 38, 38, 37, 37, 37, 36, 36, 35, 35, 35, 34, 34, 34, 33, 33, 32, 32,
    32, 31, 31, 31, 30, 30, 30, 29, 29, 29, 28, 28, 28, 28, 27, 27, 27, 26, 26, 26, 25, 25, 25, 25, 24, 24, 24, 24, 23, 23, 23, 23,
    22, 22, 22, 22, 21, 21, 21, 21, 20, 20, 20, 20, 20, 19, 19, 19, 19, 18, 18, 18, 18, 18, 17, 17, 17, 17, 17, 17, 16, 16, 16, 16>>
  >>

LfoFreq16 ==
    \* floor(LFO_FREQ[f] * 65536) of the float constants 0.168f .. 7.066f
    <<11010, 132317, 209453, 275644, 341770, 385875, 407896, 463077>>

PitchTable(i) ==
    IF i < 64 THEN i * 2 + 128
    ELSE IF i < 128 THEN 383 - i * 2
    ELSE IF i < 192 THEN 384 - i * 2
    ELSE i * 2 - 383

AmplitudeTable(i) ==
    IF i < 128 THEN 255 - (i * 2) ELSE (i * 2) - 256

VALUE_TO_CHANNEL ==
    << 0,  1,  2,  3,  4,  5,  6, -1,
       7,  8,  9, 10, 11, 12, 13, -1,
      14, 15, 16, 17, 18, 19, 20, -1,
      21, 22, 23, 24, 25, 26, 27, -1>>

FreqStep(rate, i) ==
    \* m_freq_step_table[i] = value_to_fixed(TL_SHIFT, rate * (1024 + i) / 1024)
    rate * (1024 + i) * (Pow2(TL_SHIFT) \div 1024)

LfoPhaseStep(rate, f) ==
    \* uint32_t(float(1 << LFO_SHIFT) * (LFO_FREQ[f] * 256.0f / m_rate))
    LfoFreq16[f + 1] \div rate

-----------------------------------------------------------------------------
(* The sample ROM behind read_byte.  The first 120 bytes   *)
(* are the instrument table, the sample data follows; reads past the image *)
(* return 0.                                                               *)

Descriptor(start, loop, end, vib, ar, d1r, dl, d2r, krs, rr, am) ==
    << (start \div 65536) % 256, (start \div 256) % 256, start % 256,
       (loop \div 256) % 256, loop % 256,
       ((65535 - end) \div 256) % 256, (65535 - end) % 256,
       vib, ar * 16 + d1r, dl * 16 + d2r, krs * 16 + rr, am >>

DataBase ==
    \* twelve 12-byte descriptors precede the sample data
    12 * 12

Fmt12 ==
    \* bit 23 of the start address: 12-bit samples
    Pow2(23)

RomImage ==
    \*          start         loop end vib  ar  d1r dl  d2r krs rr  am
    Descriptor(DataBase,      0,   4,  0,   15, 15, 0,  0,  15, 15, 0)  \o  \* 0 sustain for ever
    Descriptor(DataBase,      1,   4,  0,   15, 15, 0,  15, 14, 14, 0)  \o  \* 1 fast release
    Descriptor(DataBase + 4,  1,   3,  0,   15, 0,  8,  0,  15, 0,  0)  \o  \* 2 release rate 0
    Descriptor(DataBase,      0,   4,  0,   0,  15, 0,  0,  15, 14, 0)  \o  \* 3 attack rate 0
    Descriptor(DataBase,      0,   2,  15,  13, 14, 0,  14, 15, 14, 2)  \o  \* 4 vibrato, tremolo
    Descriptor(Fmt12 + DataBase, 0, 4, 0,   15, 15, 0,  0,  15, 15, 0)  \o  \* 5 12-bit
    Descriptor(DataBase,      3,   2,  0,   15, 15, 0,  0,  15, 15, 0)  \o  \* 6 loop >= end
    Descriptor(DataBase + 8,  0,   3,  0,   14, 14, 0,  0,  0,  13, 0)  \o  \* 7 key-scaled rates
    Descriptor(DataBase + 4,  0,   2,  0,   15, 0,  0,  0,  15, 15, 0)  \o  \* 8 loud, held
    Descriptor(DataBase + 6,  0,   2,  0,   15, 15, 15, 15, 15, 14, 0)  \o  \* 9 decays to silence
    Descriptor(DataBase,      1,   4,  5,   15, 0,  8,  0,  15, 0,  3)  \o  \* 10 LFO depths, rate 0
    Descriptor(DataBase,      0,   4,  0,   14, 15, 8,  0,  15, 15, 0)  \o  \* 11 decay to sustain
    << 127, 127, 128, 128, 127, 128, 64, 192,
       0, 255, 18, 52, 86, 120, 154, 188 >>

HighDescriptors ==
    \* descriptors behind the sample data (14) and with the ninth index bit
    \* set; the rest of the ROM is 0.
    \* 14:  held, release rate 236011
    \* 266: 12-bit, held, stops at once on key-off
    \* 264: one silent position, held, key-rate-scale 0, release register 1
    \* 265: one silent position, key-rate-scale 0, decay1 register 1
    (266 :> Descriptor(Fmt12 + DataBase, 0, 4, 0, 15, 0, 8, 0, 15, 15, 0))
    @@ (264 :> Descriptor(DataBase + 8, 0, 1, 0, 15, 0, 0, 0, 0, 1, 0))
    @@ (265 :> Descriptor(DataBase + 8, 0, 1, 0, 15, 1, 0, 0, 0, 15, 0))
    @@ (14 :> Descriptor(DataBase + 4, 0, 2, 0, 15, 0, 0, 0, 14, 14, 0))

read_byte(address) ==
    IF address < Len(RomImage) THEN RomImage[address + 1]
    ELSE IF (address \div 12) \in DOMAIN HighDescriptors
         THEN HighDescriptors[address \div 12][(address % 12) + 1]
         ELSE 0

-----------------------------------------------------------------------------
(* Records. *)

ATTACK == "ATTACK"
DECAY1 == "DECAY1"
DECAY2 == "DECAY2"
RELEASE == "RELEASE"

init_sample(index) ==
    LET address == index * 12
        start24 == Shl(read_byte(address), 16) + Shl(read_byte(address + 1), 8)
                   + read_byte(address + 2)
    IN  [ start             |-> start24 % 4194304,                  \* & 0x3fffff
          format            |-> (Shr(start24, 20) \div 2) * 2,      \* & 0xfe
          loop              |-> Shl(read_byte(address + 3), 8) + read_byte(address + 4),
          end               |-> 65535 - (Shl(read_byte(address + 5), 8)
                                         + read_byte(address + 6)),
          attack_reg        |-> Shr(read_byte(address + 8), 4) % 16,
          decay1_reg        |-> read_byte(address + 8) % 16,
          decay2_reg        |-> read_byte(address + 9) % 16,
          decay_level       |-> Shr(read_byte(address + 9), 4) % 16,
          release_reg       |-> read_byte(address + 10) % 16,
          key_rate_scale    |-> Shr(read_byte(address + 10), 4) % 16,
          lfo_vibrato_reg   |-> read_byte(address + 7),
          lfo_amplitude_reg |-> read_byte(address + 11) % 16 ]

ZeroSample ==
    [ start |-> 0, format |-> 0, loop |-> 0, end |-> 0, attack_reg |-> 0,
      decay1_reg |-> 0, decay2_reg |-> 0, decay_level |-> 0, release_reg |-> 0,
      key_rate_scale |-> 0, lfo_vibrato_reg |-> 0, lfo_amplitude_reg |-> 0 ]

ZeroLfo ==
    \* table and scale are the null pointers of a value-initialised lfo_t
    [ phase |-> 0, phase_step |-> 0, table |-> "null", scale |-> -1 ]

ZeroSlot ==
    \* std::make_unique<slot_t []>(28) value-initialises every slot
    [ regs             |-> <<0, 0, 0, 0, 0, 0, 0, 0>>,
      playing          |-> FALSE,
      sample           |-> ZeroSample,
      base             |-> 0,
      offset           |-> 0,
      step             |-> 0,
      pan              |-> 0,
      total_level      |-> 0,
      dest_total_level |-> 0,
      total_level_step |-> 0,
      prev_sample      |-> 0,
      envelope_gen     |-> [ volume |-> 0, state |-> ATTACK, attack_rate |-> 0,
                             decay1_rate |-> 0, decay2_rate |-> 0,
                             release_rate |-> 0, decay_level |-> 0 ],
      pitch_lfo        |-> ZeroLfo,
      amplitude_lfo    |-> ZeroLfo,
      format           |-> 0 ]

Reg(slot, r) ==
    slot.regs[r + 1]

-----------------------------------------------------------------------------
(* Envelope rates. *)

OctaveUnsigned(slot) ==
    \* the 4-bit octave field taken as it is, without the sign
    (Shr(Reg(slot, 3), 4) + 15) % 16

Octave(slot) ==
    \* envelope_generator_calc: signed 4-bit octave from the pitch register
    LET o == (Shr(Reg(slot, 3), 4) + 15) % 16      \* ((regs[3] >> 4) - 1) & 0xf
    IN  IF o >= 8 THEN o - 16 ELSE o

RateOffset(slot) ==
    IF slot.sample.key_rate_scale # 15
    THEN (Octave(slot) + slot.sample.key_rate_scale) * 2 + Bit(Reg(slot, 3), 3)
    ELSE 0

RateIndex(rate, val) ==
    \* the index get_rate reads steps[] at
    IF val = 0 THEN 0
    ELSE IF val = 15 THEN 63
    ELSE IF 4 * val + rate > 63 THEN 63
    ELSE 4 * val + rate

get_rate(steps, rate, val, garbage) ==
    \* steps[r] for r < 0 reads memory in front of the table: any value
    LET r == RateIndex(rate, val)
    IN  IF r < 0 THEN garbage ELSE steps[r + 1]

RatesInRange(slot) ==
    /\ RateIndex(RateOffset(slot), slot.sample.attack_reg) >= 0
    /\ RateIndex(RateOffset(slot), slot.sample.decay1_reg) >= 0
    /\ RateIndex(RateOffset(slot), slot.sample.decay2_reg) >= 0
    /\ RateIndex(RateOffset(slot), slot.sample.release_reg) >= 0

envelope_generator_calc(slot, g) ==
    LET rate == RateOffset(slot)
    IN  [ slot.envelope_gen EXCEPT
            !.attack_rate  = get_rate(AttackStepTable, rate, slot.sample.attack_reg, g[1]),
            !.decay1_rate  = get_rate(DecayReleaseStepTable, rate, slot.sample.decay1_reg, g[2]),
            !.decay2_rate  = get_rate(DecayReleaseStepTable, rate, slot.sample.decay2_reg, g[3]),
            !.release_rate = get_rate(DecayReleaseStepTable, rate, slot.sample.release_reg, g[4]),
            !.decay_level  = 15 - slot.sample.decay_level ]

retrigger_keep_level(slot, g) ==
    \* retrigger_sample without the total-level snap
    [ slot EXCEPT
        !.offset       = 0,
        !.prev_sample  = 0,
        !.envelope_gen = [ envelope_generator_calc(slot, g) EXCEPT
                             !.state = ATTACK, !.volume = 0 ] ]

retrigger_sample(slot, g) ==
    [ slot EXCEPT
        !.offset       = 0,
        !.prev_sample  = 0,
        !.total_level  = Shl(slot.dest_total_level, TL_SHIFT),
        !.envelope_gen = [ envelope_generator_calc(slot, g) EXCEPT
                             !.state = ATTACK, !.volume = 0 ] ]

-----------------------------------------------------------------------------
(* Register decode. *)

lfo_compute_step(lfo, rate, lfo_frequency, lfo_scale, amplitude_lfo) ==
    [ lfo EXCEPT
        !.phase_step = LfoPhaseStep(rate, lfo_frequency),
        !.table      = IF amplitude_lfo THEN "amplitude" ELSE "pitch",
        !.scale      = lfo_scale ]

WriteLfoRegAlways(slot, reg, data, rate) ==
    \* case 6 and case 7 without the test of the data byte
    LET s == [ slot EXCEPT !.regs[reg + 1] = data ]
    IN  [ s EXCEPT
            !.pitch_lfo     = lfo_compute_step(s.pitch_lfo, rate,
                                  Shr(Reg(s, 6), 3) % 8, Reg(s, 6) % 8, FALSE),
            !.amplitude_lfo = lfo_compute_step(s.amplitude_lfo, rate,
                                  Shr(Reg(s, 6), 3) % 8, Reg(s, 7) % 8, TRUE) ]

WriteLfoReg(slot, reg, data, rate) ==
    \* write_slot, case 6 and case 7
    LET s == [ slot EXCEPT !.regs[reg + 1] = data ]
    IN  IF data # 0
        THEN [ s EXCEPT
                 !.pitch_lfo     = lfo_compute_step(s.pitch_lfo, rate,
                                       Shr(Reg(s, 6), 3) % 8, Reg(s, 6) % 8, FALSE),
                 !.amplitude_lfo = lfo_compute_step(s.amplitude_lfo, rate,
                                       Shr(Reg(s, 6), 3) % 8, Reg(s, 7) % 8, TRUE) ]
        ELSE s

PitchStepReversed(slot, rate) ==
    \* case 2 and case 3 with the two shift directions exchanged
    LET oct   == (Shr(Reg(slot, 3), 4) + 15) % 16
        code  == Shl(Reg(slot, 3) % 16, 6) + Shr(Reg(slot, 2), 2)
        pitch == FreqStep(rate, code)
    IN  IF oct >= 8
        THEN Shl(pitch \div rate, 16 - oct) % ((Pow2(30) \div rate) * 4)
        ELSE Shr(pitch, oct) \div rate

PitchStep(slot, rate) ==
    \* write_slot, case 2 and case 3: m_step = pitch / m_rate, where pitch is
    \* the uint32_t m_freq_step_table entry shifted by the octave.  For a
    \* power-of-two rate the table entry is rate * q with q = (1024 + code) * 4,
    \* so ((rate * q) << oct) mod 2^32, divided by rate, is (q << oct) mod
    \* (2^32 / rate).
    LET oct   == (Shr(Reg(slot, 3), 4) + 15) % 16
        code  == Shl(Reg(slot, 3) % 16, 6) + Shr(Reg(slot, 2), 2)
        pitch == FreqStep(rate, code)
    IN  IF oct >= 8
        THEN Shr(pitch, 16 - oct) \div rate
        ELSE Shl(pitch \div rate, oct) % ((Pow2(30) \div rate) * 4)

KeyOffAlwaysRelease(slot) ==
    \* key-off that ignores the 0xF (infinite sustain) release code
    IF slot.playing
    THEN [ slot EXCEPT !.envelope_gen.state = RELEASE ]
    ELSE slot

KeyOffClearVolume(slot) ==
    \* key-off that also resets the envelope volume
    IF slot.playing
    THEN IF slot.sample.release_reg # 15
         THEN [ slot EXCEPT !.envelope_gen.state = RELEASE,
                            !.envelope_gen.volume = 0 ]
         ELSE [ slot EXCEPT !.playing = FALSE ]
    ELSE slot

KeyOff(slot) ==
    \* write_slot, case 4, bit 7 clear
    IF slot.playing
    THEN IF slot.sample.release_reg # 15
         THEN [ slot EXCEPT !.envelope_gen.state = RELEASE ]
         ELSE [ slot EXCEPT !.playing = FALSE ]
    ELSE slot

KeyOn(slot, g) ==
    \* write_slot, case 4, bit 7 set
    retrigger_sample([ slot EXCEPT !.playing = TRUE ], g)

WriteTotalLevelKick(slot, data) ==
    \* case 5 where an interpolating write already takes the first ramp step
    LET s == [ slot EXCEPT !.dest_total_level = Shr(data, 1) % 128 ]
    IN  IF data % 2 = 0
        THEN IF Ushr32(s.total_level, TL_SHIFT) > s.dest_total_level
             THEN [ s EXCEPT !.total_level_step = TotalLevelSteps[1],
                             !.total_level = s.total_level + TotalLevelSteps[1] ]
             ELSE IF Ushr32(s.total_level, TL_SHIFT) < s.dest_total_level
             THEN [ s EXCEPT !.total_level_step = TotalLevelSteps[2],
                             !.total_level = s.total_level + TotalLevelSteps[2] ]
             ELSE [ s EXCEPT !.total_level_step = TotalLevelSteps[2] ]
        ELSE [ s EXCEPT !.total_level = Shl(s.dest_total_level, TL_SHIFT) ]

WriteTotalLevelSwapped(slot, data) ==
    \* case 5 with the two ramp directions exchanged
    LET s == [ slot EXCEPT !.dest_total_level = Shr(data, 1) % 128 ]
    IN  IF data % 2 = 0
        THEN IF Ushr32(s.total_level, TL_SHIFT) > s.dest_total_level
             THEN [ s EXCEPT !.total_level_step = TotalLevelSteps[2] ]
             ELSE [ s EXCEPT !.total_level_step = TotalLevelSteps[1] ]
        ELSE [ s EXCEPT !.total_level = Shl(s.dest_total_level, TL_SHIFT) ]

WriteTotalLevelSnap(slot, data) ==
    \* case 5 where every write sets the level at once, whatever bit 0 is
    LET s == [ slot EXCEPT !.dest_total_level = Shr(data, 1) % 128 ]
    IN  [ s EXCEPT !.total_level = Shl(s.dest_total_level, TL_SHIFT) ]

WriteTotalLevel(slot, data) ==
    \* write_slot, case 5
    LET s == [ slot EXCEPT !.dest_total_level = Shr(data, 1) % 128 ]
    IN  IF data % 2 = 0
        THEN IF Ushr32(s.total_level, TL_SHIFT) > s.dest_total_level
             THEN [ s EXCEPT !.total_level_step = TotalLevelSteps[1] ]
             ELSE [ s EXCEPT !.total_level_step = TotalLevelSteps[2] ]
        ELSE [ s EXCEPT !.total_level = Shl(s.dest_total_level, TL_SHIFT) ]

SelectSampleAlwaysRetrigger(slot, rate, g) ==
    \* case 1 without the test of the playing flag before the retrigger
    LET smp == init_sample(Reg(slot, 1) + Shl(Reg(slot, 2) % 2, 8))
        s0  == [ slot EXCEPT !.sample = smp ]
        s1  == WriteLfoReg(s0, 6, smp.lfo_vibrato_reg, rate)
        s2  == WriteLfoReg(s1, 7, smp.lfo_amplitude_reg, rate)
        s3  == [ s2 EXCEPT !.base = smp.start, !.format = smp.format ]
    IN  retrigger_sample(s3, g)

SelectSample(slot, rate, g) ==
    \* write_slot, case 1
    LET smp == init_sample(Reg(slot, 1) + Shl(Reg(slot, 2) % 2, 8))
        s0  == [ slot EXCEPT !.sample = smp ]
        s1  == WriteLfoReg(s0, 6, smp.lfo_vibrato_reg, rate)
        s2  == WriteLfoReg(s1, 7, smp.lfo_amplitude_reg, rate)
        s3  == [ s2 EXCEPT !.base = smp.start, !.format = smp.format ]
    IN  IF s3.playing THEN retrigger_sample(s3, g) ELSE s3

write_slot(slot, reg, data, rate, g) ==
    LET s == [ slot EXCEPT !.regs[reg + 1] = data ]
    IN  CASE reg = 0 -> [ s EXCEPT !.pan = Shr(data, 4) % 16 ]
          [] reg = 1 -> SelectSample(s, rate, g)
          [] reg \in {2, 3} -> [ s EXCEPT !.step = PitchStep(s, rate) ]
          [] reg = 4 -> IF data >= 128 THEN KeyOn(s, g) ELSE KeyOff(s)
          [] reg = 5 -> WriteTotalLevel(s, data)
          [] reg \in {6, 7} -> WriteLfoReg(s, reg, data, rate)

-----------------------------------------------------------------------------
(* Envelope generator and LFO steps. *)

EgMax ==
    \* 0x3ff << EG_SHIFT
    Shl(1023, EG_SHIFT)

EgSkip ==
    \* 0x400 << EG_SHIFT
    Shl(1024, EG_SHIFT)

Floor0(v) ==
    IF v <= 0 THEN 0 ELSE v

AttackHold(slot) ==
    \* an ATTACK step that saturates the volume but never hands over to decay
    LET eg == slot.envelope_gen
        v  == eg.volume + eg.attack_rate
    IN  [ slot EXCEPT !.envelope_gen.volume = IF v >= EgMax THEN EgMax ELSE v ]

AttackSkipAlways(slot) ==
    \* an ATTACK step that leaves for DECAY2 whatever the decay1 rate is
    LET eg == slot.envelope_gen
        v  == eg.volume + eg.attack_rate
    IN  IF v >= EgMax
        THEN [ slot EXCEPT !.envelope_gen.volume = EgMax,
                           !.envelope_gen.state  = DECAY2 ]
        ELSE [ slot EXCEPT !.envelope_gen.volume = v ]

AttackStep(slot) ==
    \* case state_t::ATTACK
    LET eg == slot.envelope_gen
        v  == eg.volume + eg.attack_rate
    IN  IF v >= EgMax
        THEN [ slot EXCEPT
                 !.envelope_gen.volume = EgMax,
                 !.envelope_gen.state  =
                     IF eg.decay1_rate >= EgSkip THEN DECAY2 ELSE DECAY1 ]
        ELSE [ slot EXCEPT !.envelope_gen.volume = v ]

Decay1ThresholdUnshifted(slot) ==
    \* a DECAY1 step that compares with the sustain level as stored, not << 6
    LET eg == slot.envelope_gen
        v  == Floor0(eg.volume - eg.decay1_rate)
    IN  IF Shr(v, EG_SHIFT) <= eg.decay_level
        THEN [ slot EXCEPT !.envelope_gen.volume = v,
                           !.envelope_gen.state  = DECAY2 ]
        ELSE [ slot EXCEPT !.envelope_gen.volume = v ]

Decay1Step(slot) ==
    \* case state_t::DECAY1
    LET eg == slot.envelope_gen
        v  == Floor0(eg.volume - eg.decay1_rate)
    IN  IF Shr(v, EG_SHIFT) <= Shl(eg.decay_level, 6)
        THEN [ slot EXCEPT !.envelope_gen.volume = v,
                           !.envelope_gen.state  = DECAY2 ]
        ELSE [ slot EXCEPT !.envelope_gen.volume = v ]

Decay2StopAtSilence(slot) ==
    \* a DECAY2 step that stops the voice once the volume has run out
    LET eg == slot.envelope_gen
        v  == Floor0(eg.volume - eg.decay2_rate)
    IN  [ slot EXCEPT !.envelope_gen.volume = v,
                      !.playing = (v > 0) ]

Decay2FallsToRelease(slot) ==
    \* a DECAY2 step that hands over to RELEASE once the volume has run out
    LET eg == slot.envelope_gen
        v  == Floor0(eg.volume - eg.decay2_rate)
    IN  [ slot EXCEPT !.envelope_gen.volume = v,
                      !.envelope_gen.state  = IF v = 0 THEN RELEASE ELSE DECAY2 ]

Decay2Step(slot) ==
    \* case state_t::DECAY2
    LET eg == slot.envelope_gen
    IN  [ slot EXCEPT !.envelope_gen.volume = Floor0(eg.volume - eg.decay2_rate) ]

ReleaseKeepsPlaying(slot) ==
    \* a RELEASE step that floors the volume at 0 and leaves the voice playing
    LET eg == slot.envelope_gen
    IN  [ slot EXCEPT !.envelope_gen.volume = Floor0(eg.volume - eg.release_rate) ]

ReleaseStallsAtEnd(slot) ==
    \* a RELEASE step that refuses the last step down to 0
    LET eg == slot.envelope_gen
        v  == eg.volume - eg.release_rate
    IN  IF v <= 0 THEN slot ELSE [ slot EXCEPT !.envelope_gen.volume = v ]

ReleaseStep(slot) ==
    \* case state_t::RELEASE
    LET eg == slot.envelope_gen
        v  == eg.volume - eg.release_rate
    IN  IF v <= 0
        THEN [ slot EXCEPT !.envelope_gen.volume = 0, !.playing = FALSE ]
        ELSE [ slot EXCEPT !.envelope_gen.volume = v ]

envelope_generator_update(slot) ==
    \* the envelope state and the playing flag after one step
    CASE slot.envelope_gen.state = ATTACK  -> AttackStep(slot)
      [] slot.envelope_gen.state = DECAY1  -> Decay1Step(slot)
      [] slot.envelope_gen.state = DECAY2  -> Decay2Step(slot)
      [] slot.envelope_gen.state = RELEASE -> ReleaseStep(slot)

EnvelopeIndex(slot) ==
    \* m_volume >> EG_SHIFT (arithmetic shift of the int32_t volume)
    slot.envelope_gen.volume \div Pow2(EG_SHIFT)

EnvelopeGain(slot, garbage) ==
    \* m_linear_to_exp_volume[m_volume >> EG_SHIFT]; outside 0..0x3ff the read
    \* leaves the table: any value
    IF EnvelopeIndex(slot) \in 0..1023
    THEN LinearToExpVolume[EnvelopeIndex(slot) + 1]
    ELSE garbage

LfoAdvance(lfo) ==
    \* lfo.m_phase += lfo.m_phase_step; only bits 8..15 of the phase are read
    [ lfo EXCEPT !.phase = (lfo.phase + lfo.phase_step) % 65536 ]

LfoValue(lfo) ==
    \* pitch_lfo_step / amplitude_lfo_step, on the advanced phase
    LET i == Shr(lfo.phase, LFO_SHIFT) % 256
    IN  CASE lfo.table = "pitch" ->
               Shl(PitchScaleTables[lfo.scale + 1][PitchTable(i) + 1], TL_SHIFT - LFO_SHIFT)
          [] lfo.table = "amplitude" ->
               Shl(AmplitudeScaleTables[lfo.scale + 1][AmplitudeTable(i) + 1], TL_SHIFT - LFO_SHIFT)

-----------------------------------------------------------------------------
(* Stream renderer: one slot, one output sample. *)

DecodeSample(slot, spos) ==
    IF Bit(slot.format, 3) = 1
    THEN LET adr == slot.base + Shr(spos, 2) * 6
         IN  CASE spos % 4 = 0 ->
                    S16(Shl(read_byte(adr), 8) + Shl(read_byte(adr + 1) % 16, 4))
               [] spos % 4 = 1 ->
                    S16(Shl(read_byte(adr + 2), 8) + Shr(read_byte(adr + 1), 4) * 16)
               [] spos % 4 = 2 ->
                    S16(Shl(read_byte(adr + 3), 8) + Shl(read_byte(adr + 4) % 16, 4))
               [] spos % 4 = 3 ->
                    S16(Shl(read_byte(adr + 5), 8) + Shr(read_byte(adr + 4), 4) * 16)
    ELSE S16(Shl(read_byte(slot.base + spos), 8))

VolIndexMirrored(slot) ==
    \* the lookup index with the pan code reflected (16 - pan)
    BitOr(Ushr32(slot.total_level, TL_SHIFT), Shl((16 - slot.pan) % 16, 7))

VolIndex(slot) ==
    \* (m_total_level >> TL_SHIFT) | (m_pan << 7)
    BitOr(Ushr32(slot.total_level, TL_SHIFT), Shl(slot.pan, 7))

PanGainLevelOnly(table, vol, garbage) ==
    \* a lookup by the level bits alone, as if every pan code were centre
    table[(vol % 128) + 1]

PanGain(table, vol, garbage) ==
    \* m_left_pan_table[vol] / m_right_pan_table[vol]; the tables hold 0x800
    \* entries, a larger index reads past them: any value
    IF vol \in 0..2047 THEN table[vol + 1] ELSE garbage

AdvanceOffsetNoWrap(slot, step) ==
    \* playback that runs past the end of the sample
    slot.offset + step

AdvanceOffsetRestart(slot, step) ==
    \* a wrap that restarts the sample at its first position instead of the
    \* loop start
    IF slot.offset + step >= Shl(slot.sample.end, TL_SHIFT)
    THEN 0
    ELSE slot.offset + step

AdvanceOffset(slot, step) ==
    \* m_offset += step, then the loop wrap
    IF slot.offset + step >= Shl(slot.sample.end, TL_SHIFT)
    THEN Shl(slot.sample.loop, TL_SHIFT)
    ELSE slot.offset + step

RampWithoutStop(slot) ==
    \* a ramp that keeps stepping after the destination is reached
    slot.total_level + slot.total_level_step

RampTotalLevel(slot) ==
    IF Ushr32(slot.total_level, TL_SHIFT) # slot.dest_total_level
    THEN slot.total_level + slot.total_level_step
    ELSE slot.total_level

RenderSlot(slot, garbage) ==
    \* the body of the per-slot loop for a playing slot: the slot afterwards
    \* and what it adds to smpl and smpr
    LET vol     == VolIndex(slot)
        spos    == Shr(slot.offset, TL_SHIFT)
        fpart   == slot.offset % Pow2(TL_SHIFT)
        csample == DecodeSample(slot, spos)
        sample0 == (csample * fpart + slot.prev_sample * (Pow2(TL_SHIFT) - fpart))
                   \div Pow2(TL_SHIFT)
        vibrato == Reg(slot, 6) % 8 # 0
        plfo    == IF vibrato THEN LfoAdvance(slot.pitch_lfo) ELSE slot.pitch_lfo
        step    == IF vibrato
                   THEN Shr(slot.step * LfoValue(plfo), TL_SHIFT)
                   ELSE slot.step
        offset  == AdvanceOffset(slot, step)
        tremolo == Reg(slot, 7) % 8 # 0
        alfo    == IF tremolo THEN LfoAdvance(slot.amplitude_lfo) ELSE slot.amplitude_lfo
        sample1 == IF tremolo
                   THEN (sample0 * LfoValue(alfo)) \div Pow2(TL_SHIFT)
                   ELSE sample0
        s1      == [ slot EXCEPT
                       !.offset        = offset,
                       !.prev_sample   = IF spos # Shr(offset, TL_SHIFT)
                                         THEN csample ELSE slot.prev_sample,
                       !.total_level   = RampTotalLevel(slot),
                       !.pitch_lfo     = plfo,
                       !.amplitude_lfo = alfo ]
        s2      == envelope_generator_update(s1)
        sample2 == (sample1 * EnvelopeGain(s2, garbage)) \div 1024
    IN  [ slot  |-> s2,
          left  |-> (PanGain(LeftPanTable, vol, garbage) * sample2) \div Pow2(TL_SHIFT),
          right |-> (PanGain(RightPanTable, vol, garbage) * sample2) \div Pow2(TL_SHIFT) ]

SlotStepAlways(slot, garbage) ==
    \* the per-slot loop body without the test of the playing flag
    RenderSlot(slot, garbage)

SlotStep(slot, garbage) ==
    \* one slot's turn in the per-sample loop: if (slot.m_playing) { ... }
    IF slot.playing
    THEN RenderSlot(slot, garbage)
    ELSE [ slot |-> slot, left |-> 0, right |-> 0 ]

SlotIds ==
    0 .. (NumSlots - 1)

RECURSIVE SumLeft(_, _, _)
SumLeft(slots, sl, garbage) ==
    \* smpl after slots sl .. 27 have been added
    IF sl = NumSlots THEN 0
    ELSE SlotStep(slots[sl], garbage).left
         + SumLeft(slots, sl + 1, garbage)

RECURSIVE SumRight(_, _, _)
SumRight(slots, sl, garbage) ==
    IF sl = NumSlots THEN 0
    ELSE SlotStep(slots[sl], garbage).right
         + SumRight(slots, sl + 1, garbage)

put_int_clamp(sample, maxclamp) ==
    \* write_stream_view::put_int_clamp: clamp to [-maxclamp, maxclamp - 1]
    IF sample < -maxclamp THEN -maxclamp
    ELSE IF sample > maxclamp - 1 THEN maxclamp - 1
    ELSE sample

EmitUnclamped(acc) ==
    \* the accumulator handed to the stream as it is
    acc

EmitSample(acc) ==
    \* outputs[n].put_int_clamp(i, acc, 32768)
    put_int_clamp(acc, 32768)

-----------------------------------------------------------------------------
(* Values an out-of-bounds table read may return (memory outside the       *)
(* table): representatives of "any 32-bit value", namely zero, a negative  *)
(* value and a value as large as the envelope's skip threshold.            *)

OobValues ==
    {0, Pow2(26), -65536}

NoGarbage ==
    <<0, 0, 0, 0>>

RateGarbage(slot) ==
    \* what the four get_rate calls of a retrigger of slot may read: a read
    \* inside the table never uses its component
    LET read(val) == IF RateIndex(RateOffset(slot), val) >= 0 THEN {0}
                     ELSE OobValues
    IN  read(slot.sample.attack_reg) \X read(slot.sample.decay1_reg)
          \X read(slot.sample.decay2_reg) \X read(slot.sample.release_reg)

GainGarbage(slots) ==
    \* what the gain lookups of one render tick may read
    IF \A sl \in SlotIds :
         slots[sl].playing =>
           /\ EnvelopeIndex(envelope_generator_update(slots[sl])) \in 0..1023
           /\ VolIndex(slots[sl]) \in 0..2047
    THEN {0}
    ELSE OobValues

-----------------------------------------------------------------------------
(* Operations. *)

Init ==
    /\ m_slots = [sl \in SlotIds |-> ZeroSlot]
    /\ m_cur_slot = 0
    /\ m_address = 0
    /\ m_rate = 32768
    /\ out = <<0, 0>>
    /\ oob = FALSE
    /\ op = [kind |-> "init", offset |-> -1, data |-> -1, slot |-> -1, reg |-> -1]
    /\ prev = [sl \in SlotIds |-> ZeroSlot]

WriteDataBroadcast(data) ==
    \* a data write that reaches every voice instead of the selected one
    /\ m_slots' = [sl \in SlotIds |->
                     write_slot(m_slots[sl], m_address, data, m_rate, NoGarbage)]
    /\ UNCHANGED <<m_cur_slot, m_address, oob>>

WriteData(data) ==
    \* write, case 0: write_slot(m_slots[m_cur_slot], m_address, data)
    /\ IF m_cur_slot \in SlotIds
       THEN /\ \E g \in RateGarbage(write_slot(m_slots[m_cur_slot], m_address, data,
                                               m_rate, NoGarbage)) :
                 m_slots' = [m_slots EXCEPT
                               ![m_cur_slot] = write_slot(@, m_address, data, m_rate, g)]
            /\ UNCHANGED oob
       ELSE \* m_slots[-1]: the write lands outside the pool
            /\ oob' = TRUE
            /\ UNCHANGED m_slots
    /\ UNCHANGED <<m_cur_slot, m_address>>

AddressUnclamped(data) ==
    \* the selector taken from the byte as it is
    data

ClampAddress(data) ==
    \* (data > 7) ? 7 : data
    IF data > 7 THEN 7 ELSE data

Write(offset, data) ==
    /\ CASE offset = 0 -> WriteData(data)
         [] offset = 1 -> /\ m_cur_slot' = VALUE_TO_CHANNEL[(data % 32) + 1]
                          /\ UNCHANGED <<m_slots, m_address, oob>>
         [] offset = 2 -> /\ m_address' = ClampAddress(data)
                          /\ UNCHANGED <<m_slots, m_cur_slot, oob>>
         [] OTHER      -> UNCHANGED <<m_slots, m_cur_slot, m_address, oob>>
    /\ op' = [kind |-> "write", offset |-> offset, data |-> data,
              slot |-> m_cur_slot, reg |-> m_address]
    /\ prev' = m_slots
    /\ UNCHANGED <<m_rate, out>>

RenderTick ==
    \* sound_stream_update, one iteration of the loop over output samples
    /\ \E g \in GainGarbage(m_slots) :
         /\ m_slots' = [sl \in SlotIds |-> SlotStep(m_slots[sl], g).slot]
         /\ out' = << EmitSample(SumLeft(m_slots, 0, g)),
                      EmitSample(SumRight(m_slots, 0, g)) >>
    /\ op' = [kind |-> "render", offset |-> -1, data |-> -1, slot |-> -1, reg |-> -1]
    /\ prev' = m_slots
    /\ UNCHANGED <<m_cur_slot, m_address, m_rate, oob>>

ClockChangedStopsVoices(rate) ==
    \* a clock change that also silences every voice, as a restart would
    /\ m_rate' = rate
    /\ m_slots' = [sl \in SlotIds |-> [ m_slots[sl] EXCEPT !.playing = FALSE ]]
    /\ op' = [kind |-> "clock", offset |-> -1, data |-> -1, slot |-> -1, reg |-> -1]
    /\ prev' = m_slots
    /\ UNCHANGED <<m_cur_slot, m_address, out, oob>>

device_clock_changed(rate) ==
    \* m_rate = clock / 224 and the frequency-step table rebuilt from it
    /\ m_rate' = rate
    /\ op' = [kind |-> "clock", offset |-> -1, data |-> -1, slot |-> -1, reg |-> -1]
    /\ prev' = m_slots
    /\ UNCHANGED <<m_slots, m_cur_slot, m_address, out, oob>>

-----------------------------------------------------------------------------
(* Scenarios.  Each draws the register writes of the host from a small set *)
(* of (sub-register, byte) pairs; the host always addresses slots through  *)
(* write(1, code) and sub-registers through write(2, reg).                 *)

HostAddress(regs) ==
    \* the sub-register selections of a scenario
    \E r \in regs : Write(2, r)

HostSelect(codes) ==
    \* the slot selections of a scenario
    \E c \in codes : Write(1, c)

HostData(bytes) ==
    \* a data write of one of the bytes the scenario uses for the addressed
    \* sub-register
    \E d \in bytes : Write(0, d)

(* Main scenario: one voice; sample select, pitch, key on / key off and    *)
(* total-level writes interleaved with render ticks.  Sample 2 has a       *)
(* finite release and loops from 1 to 3; pitch byte 0x10 is unity speed.   *)
(* The total level is set directly to 1 (byte 3) or ramped down to 0       *)
(* (byte 0).                                                               *)

MainRegs ==
    {1, 3, 4, 5}

MainBytes(reg) ==
    CASE reg = 1 -> {2}
      [] reg = 3 -> {16}
      [] reg = 4 -> {0, 128}
      [] reg = 5 -> {0, 3}
      [] OTHER -> {}

Next ==
    \/ HostAddress(MainRegs)
    \/ HostData(MainBytes(m_address))
    \/ RenderTick

Spec ==
    Init /\ [][Next]_vars

(* Envelope scenario: one voice, samples 0 .. MaxEnvSample selected and    *)
(* keyed on and off, render ticks until every envelope has run its course. *)

MaxEnvSample ==
    2

EnvRegs ==
    {1, 4}

EnvBytes(reg) ==
    CASE reg = 1 -> 0 .. MaxEnvSample
      [] reg = 4 -> {0, 128}
      [] OTHER -> {}

NextEnv ==
    \/ HostAddress(EnvRegs)
    \/ HostData(EnvBytes(m_address))
    \/ RenderTick

SpecEnv ==
    Init /\ [][NextEnv]_vars

(* Total-level scenario: one voice; the host selects sample 3 and pan code *)
(* 0xF before the first key-on, and afterwards selects the sample again,   *)
(* keys on again, sets the level directly or ramps it, at both ends of the *)
(* range, in any order.  A ramp is started at most MaxRampSpan levels from *)
(* the current level, so that it ends within a few dozen ticks.            *)

MaxDest ==
    1

MaxRampSpan ==
    1

TLDests ==
    (0 .. MaxDest) \cup ((127 - MaxDest) .. 127)

TLRegs ==
    {0, 1, 4, 5}

Level(slot) ==
    Ushr32(slot.total_level, TL_SHIFT)

NearLevel(slot, dest) ==
    /\ dest - Level(slot) <= MaxRampSpan
    /\ Level(slot) - dest <= MaxRampSpan

TLBytes(reg) ==
    CASE reg = 0 -> {240}
      [] reg = 1 -> {3}
      [] reg = 4 -> {128}
      [] reg = 5 -> {2 * d + 1 : d \in TLDests}
                    \cup {2 * d : d \in {e \in TLDests : NearLevel(m_slots[0], e)}}
      [] OTHER -> {}

TLReady(slot) ==
    \* the host keys the voice only after programming its sample and pan
    Reg(slot, 1) = 3 /\ slot.pan = 15

NextTL ==
    \/ HostAddress(TLRegs)
    \/ (m_address = 4 => TLReady(m_slots[m_cur_slot])) /\ HostData(TLBytes(m_address))
    \/ RenderTick

SpecTL ==
    Init /\ [][NextTL]_vars

(* Mixing scenario: two voices, each selecting sample 8 (full-scale data,  *)
(* envelope held at its maximum, key-off stops at once), set to unity      *)
(* pitch, then keyed on and off.                                           *)

MixRegs ==
    {1, 3, 4}

MixCodes ==
    {0, 1}

MixBytes(reg) ==
    CASE reg = 1 -> {8}
      [] reg = 3 -> {16}
      [] reg = 4 -> {0, 128}
      [] OTHER -> {}

MixReady(slot) ==
    \* the host keys a voice only after programming its sample and pitch
    Reg(slot, 1) = 8 /\ slot.step # 0

NextMix ==
    \/ HostAddress(MixRegs)
    \/ HostSelect(MixCodes)
    \/ (m_address = 4 => MixReady(m_slots[m_cur_slot])) /\ HostData(MixBytes(m_address))
    \/ RenderTick

SpecMix ==
    Init /\ [][NextMix]_vars

(* Key-on-and-run scenario: the host sets a voice up (sample, pitch) while *)
(* it is silent, keys it on and then only render ticks follow.  The audio  *)
(* stream keeps pulling samples, so render ticks are weakly fair.          *)

LiveRegs ==
    {1, 3, 4}

LiveBytes(reg) ==
    CASE reg = 1 -> {0, 3, 7}
      [] reg = 3 -> {0, 16}
      [] reg = 4 -> {128}
      [] OTHER -> {}

NextLive ==
    \/ ~m_slots[0].playing /\ HostAddress(LiveRegs)
    \/ ~m_slots[0].playing /\ HostData(LiveBytes(m_address))
    \/ RenderTick

SpecLive ==
    Init /\ [][NextLive]_vars /\ WF_vars(RenderTick)

(* Loop scenario: one voice with pitch, no total-level writes.  Sample 0  *)
(* sustains for ever (release register 0xF, loop 0..4); sample 2 loops     *)
(* from 1 to 3 and has release rate 0.  Pitch byte 0x10 is unity speed     *)
(* (one sample position per tick), 0x30 is two octaves up (four positions  *)
(* per tick, so the first tick after key-on already wraps).                *)

LoopRegs ==
    {1, 3, 4}

LoopBytes(reg) ==
    CASE reg = 1 -> {0, 2}
      [] reg = 3 -> {16, 48}
      [] reg = 4 -> {0, 128}
      [] OTHER -> {}

NextLoop ==
    \/ HostAddress(LoopRegs)
    \/ HostData(LoopBytes(m_address))
    \/ RenderTick

SpecLoop ==
    Init /\ [][NextLoop]_vars

(* Bus scenario: raw writes to the three chip addresses, in any order.     *)
(* Voice code 8 selects slot 7; 7 and 255 are invalid codes (low five     *)
(* bits 7 and 31).  Selector bytes 8 and 255 are past the last             *)
(* sub-register.  The data byte is 255.                                    *)

BusCodes ==
    {7, 8, 255}

BusSelectors ==
    {3, 8, 255}

BusData ==
    {255}

NextBus ==
    \/ HostSelect(BusCodes)
    \/ HostAddress(BusSelectors)
    \/ HostData(BusData)
    \/ RenderTick

SpecBus ==
    Init /\ [][NextBus]_vars

(* Clock scenario: one voice with sample 0 at unity pitch, keyed on, while *)
(* the chip clock is switched between two values (sample rates 32768 and   *)
(* 16384) at any time.                                                     *)

ClockRates ==
    {16384, 32768}

ClockRegs ==
    {1, 3, 4}

ClockBytes(reg) ==
    CASE reg = 1 -> {0}
      [] reg = 3 -> {16}
      [] reg = 4 -> {128}
      [] OTHER -> {}

NextClock ==
    \/ HostAddress(ClockRegs)
    \/ HostData(ClockBytes(m_address))
    \/ \E rate \in ClockRates : device_clock_changed(rate)
    \/ RenderTick

SpecClock ==
    Init /\ [][NextClock]_vars

(* Select scenario: one voice whose sample is selected before and after   *)
(* key-on and after key-off.  Sample 10 carries LFO bytes (vibrato depth   *)
(* 5, tremolo depth 3, LFO frequency code 0).  Sub-register 2 bit 0 is the *)
(* ninth bit of the sample index; with it set the sample is 266, a 12-bit  *)
(* sample that stops at once on key-off.                                   *)

SelectRegs ==
    {1, 2, 4}

SelectBytes(reg) ==
    CASE reg = 1 -> {10}
      [] reg = 2 -> {0, 1}
      [] reg = 4 -> {0, 128}
      [] OTHER -> {}

NextSelect ==
    \/ HostAddress(SelectRegs)
    \/ HostData(SelectBytes(m_address))
    \/ RenderTick

SpecSelect ==
    Init /\ [][NextSelect]_vars

(* Pitch scenario: the host writes the two pitch sub-registers of one      *)
(* voice, keyed on or not.  The sub-register 3 bytes give the octave       *)
(* values 15 (0x0F), 0 (0x10), 1 (0x20), 7 (0x8F), 8 (0x90) and 14 (0xFF)  *)
(* with pitch code high bits 0 or 15; the sub-register 2 bytes give the    *)
(* low bits.                                                               *)

PitchRegs ==
    {2, 3, 4}

PitchBytes(reg) ==
    CASE reg = 2 -> {0, 4, 255}
      [] reg = 3 -> {15, 16, 32, 143, 144, 255}
      [] reg = 4 -> {128}
      [] OTHER -> {}

NextPitch ==
    \/ HostAddress(PitchRegs)
    \/ HostData(PitchBytes(m_address))
    \/ RenderTick

SpecPitch ==
    Init /\ [][NextPitch]_vars

(* Pan scenario: one loud, held voice (sample 8, unity pitch, total level *)
(* 0) whose pan nibble the host sets to centre (0), mute (8), the codes 3  *)
(* and 7 (left channel attenuated, silent at 7) or 13 and 9 (right channel *)
(* attenuated, silent at 9), keyed on and off between render ticks.        *)

PanCodes ==
    {0, 3, 7, 8, 9, 13}

PanRegs ==
    {0, 1, 3, 4}

PanBytes(reg) ==
    CASE reg = 0 -> { pan * 16 : pan \in PanCodes }
      [] reg = 1 -> {8}
      [] reg = 3 -> {16}
      [] reg = 4 -> {0, 128}
      [] OTHER -> {}

NextPan ==
    \/ HostAddress(PanRegs)
    \/ (m_address = 4 => MixReady(m_slots[m_cur_slot])) /\ HostData(PanBytes(m_address))
    \/ RenderTick

SpecPan ==
    Init /\ [][NextPan]_vars

(* Decay scenario: one voice at unity pitch, keyed on (and re-keyed) with  *)
(* sample 11 (attack in 41 ticks overshooting the maximum, then decay to   *)
(* the sustain level 7 << 6 and hold) or sample 9 (instant attack, decay   *)
(* all the way to the sustain level 0).                                    *)

DecayRegs ==
    {1, 3, 4}

DecayBytes(reg) ==
    CASE reg = 1 -> {9, 11}
      [] reg = 3 -> {16}
      [] reg = 4 -> {128}
      [] OTHER -> {}

NextDecay ==
    \/ HostAddress(DecayRegs)
    \/ (m_address = 4 => m_slots[m_cur_slot].step # 0 /\ Reg(m_slots[m_cur_slot], 1) # 0)
         /\ HostData(DecayBytes(m_address))
    \/ RenderTick

SpecDecay ==
    Init /\ [][NextDecay]_vars

(* Rate scenario: one voice keyed on with sample 8 (key-rate-scale 0xF) or *)
(* sample 264 (key-rate-scale 0, release register 1) at the pitch bytes    *)
(* 0x00 (octave -1, the reset value), 0x18 (octave 0, bit 3 set), 0x80     *)
(* (octave 7) and 0xE0 (octave -3).  The host programs the voice while it  *)
(* is silent and then keys it on.                                          *)

RateRegs ==
    {1, 2, 3, 4}

RateBytes(reg) ==
    CASE reg = 1 -> {8}
      [] reg = 2 -> {0, 1}
      [] reg = 3 -> {24, 128, 224}
      [] reg = 4 -> {128}
      [] OTHER -> {}

NextRate ==
    \/ HostAddress(RateRegs)
    \/ /\ IF m_address = 4 THEN Reg(m_slots[m_cur_slot], 1) = 8
                           ELSE ~m_slots[m_cur_slot].playing
       /\ HostData(RateBytes(m_address))
    \/ RenderTick

SpecRate ==
    Init /\ [][NextRate]_vars

(* LFO scenario: one voice with sample 10 (descriptor vibrato byte 5,      *)
(* tremolo byte 3), keyed on without pitch, and direct writes to the LFO   *)
(* sub-registers: 6 with 0, 0x0B (frequency 1, depth 3) or 0x13 (frequency *)
(* 2, depth 3), 7 with 0 or 3.  An LFO phase only moves on render ticks of *)
(* the playing voice, by 4 or 6 a tick; the scenario follows it up to      *)
(* MaxLfoPhase.                                                            *)

MaxLfoPhase ==
    6

LfoRegs ==
    {1, 4, 6, 7}

LfoBytes(reg) ==
    CASE reg = 1 -> {10}
      [] reg = 4 -> {128}
      [] reg = 6 -> {0, 11, 19}
      [] reg = 7 -> {0, 3}
      [] OTHER -> {}

NextLfo ==
    \/ HostAddress(LfoRegs)
    \/ HostData(LfoBytes(m_address))
    \/ /\ \A sl \in SlotIds : /\ m_slots[sl].pitch_lfo.phase < MaxLfoPhase
                              /\ m_slots[sl].amplitude_lfo.phase < MaxLfoPhase
       /\ RenderTick

SpecLfo ==
    Init /\ [][NextLfo]_vars

(* Release scenario: one voice with sample 14 (held at full volume,       *)
(* release rate 236011) or sample 2 (held, release rate 0), keyed on and   *)
(* off; the host leaves the voice alone once it is releasing.  The audio   *)
(* stream keeps pulling samples, so render ticks are weakly fair.          *)

ReleaseBytes(reg) ==
    CASE reg = 1 -> {2, 14}
      [] reg = 4 -> {0, 128}
      [] OTHER -> {}

NextRelease ==
    LET releasing == m_slots[0].playing /\ m_slots[0].envelope_gen.state = RELEASE
    IN  \/ ~releasing /\ HostAddress(EnvRegs)
        \/ ~releasing /\ HostData(ReleaseBytes(m_address))
        \/ RenderTick

SpecRelease ==
    Init /\ [][NextRelease]_vars /\ WF_vars(RenderTick)

(* Stray-rate scenario: one voice with sample 264 (key-rate-scale 0,       *)
(* release register 1) or 265 (key-rate-scale 0, decay1 register 1) at     *)
(* pitch byte 0xE0 (octave -3), keyed on and off: the release rate, or the *)
(* decay1 rate, is read in front of the rate-step table.  The scenario     *)
(* stops following a voice whose envelope volume has left 0 .. EgMax.      *)

StrayBytes(reg) ==
    CASE reg = 1 -> {8, 9}
      [] reg = 2 -> {1}
      [] reg = 3 -> {224}
      [] reg = 4 -> {0, 128}
      [] OTHER -> {}

NextStray ==
    \/ HostAddress(RateRegs)
    \/ /\ IF m_address = 4 THEN m_slots[m_cur_slot].sample.key_rate_scale = 0
                           ELSE ~m_slots[m_cur_slot].playing
       /\ HostData(StrayBytes(m_address))
    \/ /\ \A sl \in SlotIds : m_slots[sl].envelope_gen.volume \in 0 .. EgMax
       /\ RenderTick

SpecStray ==
    Init /\ [][NextStray]_vars

(* Isolation scenario: the two voices of the mix scenario, with writes to  *)
(* chip addresses past the three decoded ones (3 and 7) at any time.       *)

OtherOffsets ==
    {3, 7}

NextIsolate ==
    \/ HostAddress(MixRegs)
    \/ HostSelect(MixCodes)
    \/ (m_address = 4 => MixReady(m_slots[m_cur_slot])) /\ HostData(MixBytes(m_address))
    \/ \E o \in OtherOffsets : Write(o, 255)
    \/ RenderTick

SpecIsolate ==
    Init /\ [][NextIsolate]_vars

(* Wrap scenario: one voice with sample 2 (loop 1, end 3) or sample 6      *)
(* (loop 3, end 2: the loop start lies past the end), at unity pitch       *)
(* (0x10) or two octaves up (0x30, four positions per tick).               *)

WrapBytes(reg) ==
    CASE reg = 1 -> {2, 6}
      [] reg = 3 -> {16, 48}
      [] reg = 4 -> {0, 128}
      [] OTHER -> {}

NextWrap ==
    \/ HostAddress(LoopRegs)
    \/ HostData(WrapBytes(m_address))
    \/ RenderTick

SpecWrap ==
    Init /\ [][NextWrap]_vars

-----------------------------------------------------------------------------
(* Properties.  op and prev identify the last operation and the slots      *)
(* before it, so that effects of one operation are state predicates.       *)

LastDataWrite(reg) ==
    /\ op.kind = "write"
    /\ op.offset = 0
    /\ op.reg = reg
    /\ op.slot \in SlotIds

LastKeyOn ==
    LastDataWrite(4) /\ op.data >= 128

LastKeyOff ==
    LastDataWrite(4) /\ op.data < 128

LastRender ==
    op.kind = "render"

(* C1: after a key-on write (sub-register 4, bit 7 set), whatever the      *)
(* voice was doing before, the voice is playing, the envelope is in ATTACK *)
(* with volume 0, the playback offset and the previous decoded sample are  *)
(* 0, and the current total level is the destination level << TL_SHIFT.    *)
C1_KeyOnRetriggers ==
    LastKeyOn =>
      LET s == m_slots[op.slot]
      IN  /\ s.playing
          /\ s.envelope_gen.state = ATTACK
          /\ s.envelope_gen.volume = 0
          /\ s.offset = 0
          /\ s.prev_sample = 0
          /\ s.total_level = Shl(s.dest_total_level, TL_SHIFT)

C1_Witness ==
    \* key-on of a voice that was in RELEASE, mid-sample, with the level
    \* away from its destination
    /\ LastKeyOn
    /\ prev[op.slot].playing
    /\ prev[op.slot].envelope_gen.state = RELEASE
    /\ prev[op.slot].envelope_gen.volume > 0
    /\ prev[op.slot].offset > 0
    /\ prev[op.slot].prev_sample # 0
    /\ prev[op.slot].total_level # Shl(prev[op.slot].dest_total_level, TL_SHIFT)
    /\ m_slots[op.slot].total_level = 0

(* C3: a key-off write (sub-register 4, bit 7 clear) on a playing voice    *)
(* whose release register is not 0xF sets the envelope state to RELEASE    *)
(* and changes nothing else but the stored register byte (the voice stays  *)
(* playing; volume, offset and total level are as before); on a voice that *)
(* is not playing it changes only the stored register byte.                *)
C3_KeyOffFiniteRelease ==
    LastKeyOff =>
      LET old == prev[op.slot]
          new == m_slots[op.slot]
      IN  /\ (old.playing /\ old.sample.release_reg # 15) =>
                new = [ old EXCEPT !.regs[5] = op.data,
                                   !.envelope_gen.state = RELEASE ]
          /\ ~old.playing =>
                new = [ old EXCEPT !.regs[5] = op.data ]

C3_Witness ==
    /\ LastKeyOff
    /\ prev[op.slot].playing
    /\ prev[op.slot].sample.release_reg # 15
    /\ prev[op.slot].envelope_gen.state = DECAY1
    /\ prev[op.slot].envelope_gen.volume > 0
    /\ prev[op.slot].offset > 0
    /\ prev[op.slot].total_level > 0
    /\ m_slots[op.slot].playing
    /\ m_slots[op.slot].envelope_gen.state = RELEASE

(* C2: a key-off write (sub-register 4, bit 7 clear) on a playing voice    *)
(* whose release register is 0xF marks the voice not playing in that write *)
(* and leaves the envelope as it was, in a state other than RELEASE; a     *)
(* render tick that finds the voice stopped this way leaves every field of *)
(* it unchanged and, no other voice playing, emits silence.                *)
C2_KeyOffInfiniteSustain ==
    /\ LastKeyOff =>
         LET old == prev[op.slot]
             new == m_slots[op.slot]
         IN  (old.playing /\ old.sample.release_reg = 15) =>
               /\ ~new.playing
               /\ new.envelope_gen = old.envelope_gen
               /\ new.envelope_gen.state # RELEASE
    /\ LastRender =>
         \A sl \in SlotIds :
           ( /\ ~prev[sl].playing
             /\ prev[sl].sample.release_reg = 15
             /\ Reg(prev[sl], 4) < 128 ) =>
               /\ m_slots[sl] = prev[sl]
               /\ (\A other \in SlotIds : ~prev[other].playing) => out = <<0, 0>>

C2_Witness ==
    \* the render tick after the key-off of a sounding, sustained voice
    /\ LastRender
    /\ ~prev[0].playing
    /\ prev[0].sample.release_reg = 15
    /\ Reg(prev[0], 4) < 128
    /\ prev[0].envelope_gen.state = DECAY1
    /\ prev[0].envelope_gen.volume > 0
    /\ prev[0].prev_sample # 0
    /\ prev[0].step > 0
    /\ m_slots[0] = prev[0]
    /\ out = <<0, 0>>

(* C8 as stated: on a render tick of a playing voice (no vibrato), if the  *)
(* offset plus the step reaches the descriptor end offset the offset       *)
(* becomes loop << TL_SHIFT, otherwise it is the old offset plus the step, *)
(* and the voice is still playing after a tick that wrapped.               *)
C8_AsStated ==
    LastRender =>
      \A sl \in SlotIds :
        (prev[sl].playing /\ Reg(prev[sl], 6) % 8 = 0) =>
          LET old == prev[sl]
              new == m_slots[sl]
              sum == old.offset + old.step
          IN  /\ new.offset = IF sum >= Shl(old.sample.end, TL_SHIFT)
                              THEN Shl(old.sample.loop, TL_SHIFT)
                              ELSE sum
              /\ sum >= Shl(old.sample.end, TL_SHIFT) => new.playing

(* C8: on a render tick of a playing voice (no vibrato), if the offset     *)
(* plus the step reaches the descriptor end offset the offset becomes      *)
(* loop << TL_SHIFT, otherwise it is the old offset plus the step; the     *)
(* voice is still playing after a tick that wrapped unless its envelope    *)
(* was in RELEASE and its volume ran out on that tick.                     *)
C8_LoopWraparound ==
    LastRender =>
      \A sl \in SlotIds :
        (prev[sl].playing /\ Reg(prev[sl], 6) % 8 = 0) =>
          LET old == prev[sl]
              new == m_slots[sl]
              sum == old.offset + old.step
          IN  /\ new.offset = IF sum >= Shl(old.sample.end, TL_SHIFT)
                              THEN Shl(old.sample.loop, TL_SHIFT)
                              ELSE sum
              /\ sum >= Shl(old.sample.end, TL_SHIFT) =>
                    \/ new.playing
                    \/ /\ old.envelope_gen.state = RELEASE
                       /\ new.envelope_gen.volume <= 0

C8_Witness ==
    \* a wrap from the middle of the loop back to a loop start other than 0
    /\ LastRender
    /\ prev[0].playing
    /\ prev[0].step = Pow2(TL_SHIFT)
    /\ prev[0].offset = Shl(2, TL_SHIFT)
    /\ prev[0].sample.end = 3
    /\ prev[0].sample.loop = 1
    /\ m_slots[0].offset = Shl(1, TL_SHIFT)
    /\ m_slots[0].playing

(* C4 as stated: once the voice is keyed on and only render ticks follow,  *)
(* the envelope eventually leaves ATTACK for DECAY1 or DECAY2, whatever    *)
(* the sample descriptor.                                                  *)
C4_AsStated ==
    (m_slots[0].playing /\ m_slots[0].envelope_gen.state = ATTACK)
      ~> (m_slots[0].envelope_gen.state \in {DECAY1, DECAY2})

(* C4: once the voice is keyed on with an attack rate greater than zero    *)
(* and only render ticks follow, the envelope eventually leaves ATTACK for *)
(* DECAY1 or DECAY2; and a render tick of a playing voice in DECAY1 or     *)
(* DECAY2 leaves it playing and in DECAY1 or DECAY2 (never RELEASE, never  *)
(* stopped).                                                               *)
C4_EnvelopeProgress ==
    /\ ( /\ m_slots[0].playing
         /\ m_slots[0].envelope_gen.state = ATTACK
         /\ m_slots[0].envelope_gen.attack_rate > 0 )
         ~> (m_slots[0].envelope_gen.state \in {DECAY1, DECAY2})
    /\ [][ ( /\ op'.kind = "render"
             /\ m_slots[0].playing
             /\ m_slots[0].envelope_gen.state \in {DECAY1, DECAY2} )
           => ( /\ m_slots'[0].playing
                /\ m_slots'[0].envelope_gen.state \in {DECAY1, DECAY2} ) ]_vars

C4_Witness ==
    \* the tick on which a multi-tick attack hands over to decay
    /\ LastRender
    /\ prev[0].playing
    /\ prev[0].envelope_gen.state = ATTACK
    /\ prev[0].envelope_gen.volume > 0
    /\ prev[0].envelope_gen.attack_rate > 0
    /\ m_slots[0].playing
    /\ m_slots[0].envelope_gen.state = DECAY1

(* C5: a voice whose last sub-register 4 write was a key-on is playing and *)
(* not in RELEASE, however many render ticks have passed; a render tick    *)
(* clears the playing flag only of a voice that was in RELEASE; and a      *)
(* playing voice enters RELEASE only by a key-off write to it.             *)
C5_KeyedOnStaysPlaying ==
    \A sl \in SlotIds :
      LET old == prev[sl]
          new == m_slots[sl]
      IN  /\ Reg(new, 4) >= 128 =>
               (new.playing /\ new.envelope_gen.state # RELEASE)
          /\ (LastRender /\ old.playing /\ ~new.playing) =>
               old.envelope_gen.state = RELEASE
          /\ (new.envelope_gen.state = RELEASE /\ old.envelope_gen.state # RELEASE) =>
               (LastKeyOff /\ op.slot = sl)

C5_Witness ==
    \* keyed on, decayed to silence in DECAY2, rendered again: still playing
    /\ LastRender
    /\ Reg(prev[0], 4) >= 128
    /\ prev[0].envelope_gen.state = DECAY2
    /\ prev[0].envelope_gen.volume = 0
    /\ m_slots[0].playing
    /\ m_slots[0].envelope_gen.state = DECAY2

(* C6: on every render tick of a playing voice the total level moves       *)
(* toward the destination or rests on it: if the integer level equals the  *)
(* destination the level is unchanged (the ramp has stopped); if it is     *)
(* above, the level decreases and its integer part stays at or above the   *)
(* destination; if it is below, the level increases and its integer part   *)
(* stays at or below the destination.  The scenario interleaves direct and *)
(* interpolated sub-register 5 writes, key-on and sample-select writes.    *)
C6_RampMonotonic ==
    LastRender =>
      \A sl \in SlotIds :
        prev[sl].playing =>
          LET old == prev[sl]
              new == m_slots[sl]
              d   == old.dest_total_level
          IN  /\ new.dest_total_level = d
              /\ Level(old) = d => new.total_level = old.total_level
              /\ Level(old) > d =>
                   (new.total_level < old.total_level /\ Level(new) >= d)
              /\ Level(old) < d =>
                   (new.total_level > old.total_level /\ Level(new) <= d)

C6_Witness ==
    \* the tick on which an upward ramp arrives, and the ramp is then over
    /\ LastRender
    /\ prev[0].playing
    /\ Level(prev[0]) = 126
    /\ prev[0].dest_total_level = 127
    /\ Level(m_slots[0]) = 127
    /\ RampTotalLevel(m_slots[0]) = m_slots[0].total_level

(* C7: in every state, for every voice, total_level >> TL_SHIFT lies in    *)
(* 0..0x7F and the pan/level index (level | pan << 7) lies in 0..0x7FF.    *)
C7_LevelInRange ==
    \A sl \in SlotIds :
      /\ Level(m_slots[sl]) \in 0 .. 127
      /\ VolIndex(m_slots[sl]) \in 0 .. 2047

C7_Witness ==
    \* a downward ramp has just arrived at level 0 with pan code 0xF
    /\ LastRender
    /\ prev[0].playing
    /\ prev[0].pan = 15
    /\ Level(prev[0]) = 1
    /\ prev[0].dest_total_level = 0
    /\ Level(m_slots[0]) = 0
    /\ m_slots[0].total_level > 0
    /\ VolIndex(m_slots[0]) = 1920

RECURSIVE PlayingSum(_, _, _, _)
PlayingSum(slots, sl, side, garbage) ==
    \* what the voices sl .. 27 that are playing in slots add to one side
    IF sl = NumSlots THEN 0
    ELSE (IF slots[sl].playing
          THEN (IF side = "left" THEN RenderSlot(slots[sl], garbage).left
                                 ELSE RenderSlot(slots[sl], garbage).right)
          ELSE 0)
         + PlayingSum(slots, sl + 1, side, garbage)

(* C9: a render tick leaves every field of a voice that is not playing     *)
(* unchanged, and what it emits is what the playing voices alone add up to *)
(* (a voice that is not playing adds nothing to either side).              *)
C9_NonPlayingSkipped ==
    LastRender =>
      /\ \A sl \in SlotIds : ~prev[sl].playing => m_slots[sl] = prev[sl]
      /\ \E g \in GainGarbage(prev) :
           out = << EmitSample(PlayingSum(prev, 0, "left", g)),
                    EmitSample(PlayingSum(prev, 0, "right", g)) >>

C9_Witness ==
    \* voice 0 sounds while voice 1, keyed off in the middle of its sample,
    \* is passed over
    /\ LastRender
    /\ prev[0].playing
    /\ ~prev[1].playing
    /\ prev[1].offset > 0
    /\ prev[1].prev_sample # 0
    /\ prev[1].envelope_gen.volume > 0
    /\ m_slots[1] = prev[1]
    /\ out[1] # 0
    /\ out[2] # 0

(* C10: both emitted samples lie in -32768 .. 32767; each is the sum of    *)
(* the contributions of this tick alone (silence when no voice plays),     *)
(* limited to that range.                                                  *)
C10_OutputClamped ==
    /\ out[1] \in -32768 .. 32767
    /\ out[2] \in -32768 .. 32767
    /\ LastRender =>
         /\ (\A sl \in SlotIds : ~prev[sl].playing) => out = <<0, 0>>
         /\ \E g \in GainGarbage(prev) :
              LET l == PlayingSum(prev, 0, "left", g)
                  r == PlayingSum(prev, 0, "right", g)
              IN  /\ out[1] = IF l > 32767 THEN 32767
                              ELSE IF l < -32768 THEN -32768 ELSE l
                  /\ out[2] = IF r > 32767 THEN 32767
                              ELSE IF r < -32768 THEN -32768 ELSE r

C10_Witness ==
    \* two loud voices together exceed the range and the output is limited
    /\ LastRender
    /\ prev[0].playing
    /\ prev[1].playing
    /\ PlayingSum(prev, 0, "left", 0) > 32767
    /\ out[1] = 32767

(* C11 as stated: after any sequence of writes, including the selection   *)
(* of an invalid voice code, a data write indexes the slot pool only at    *)
(* 0..27 or does nothing; no access outside the pool has happened.         *)
C11_PoolIndexSafe ==
    /\ ~oob
    /\ (op.kind = "write" /\ op.offset = 0) => op.slot \in SlotIds

(* C12: the sub-register selector is always in 0..7; write(2, v) sets it   *)
(* to min(v, 7) for every byte v; and no other operation changes it.       *)
C12_AddressClamped ==
    /\ [](m_address \in 0 .. 7)
    /\ [][ /\ (op'.kind = "write" /\ op'.offset = 2) =>
                m_address' = (IF op'.data < 7 THEN op'.data ELSE 7)
           /\ ~(op'.kind = "write" /\ op'.offset = 2) =>
                m_address' = m_address ]_vars

C12_Witness ==
    \* a selector byte past the last sub-register, then a data write
    /\ op.kind = "write"
    /\ op.offset = 0
    /\ op.reg = 7
    /\ op.slot = 7
    /\ op.data = 255
    /\ Reg(m_slots[7], 7) = 255
    /\ m_address = 7

(* C13: a clock change sets the sample rate (and with it the frequency     *)
(* step table) and leaves the voice selector, the sub-register selector    *)
(* and every field of all 28 voices unchanged.                             *)
C13_ClockChangeFrame ==
    [][ op'.kind = "clock" =>
          /\ m_slots' = m_slots
          /\ m_cur_slot' = m_cur_slot
          /\ m_address' = m_address ]_vars

C13_Witness ==
    \* the rate was halved under a sounding voice
    /\ op.kind = "clock"
    /\ m_rate = 16384
    /\ m_address = 4
    /\ m_slots[0].playing
    /\ m_slots[0].offset > 0
    /\ m_slots[0].step > 0
    /\ m_slots[0].envelope_gen.volume > 0
    /\ m_slots = prev

IdemRegs ==
    \* the sub-registers whose writes are not edge-triggered
    {0, 2, 3, 5, 6, 7}

IdemBytes ==
    \* bytes tried on every reachable voice state
    {0, 1, 2, 3, 9, 16, 48, 127, 128, 129, 200, 254, 255}

WriteTwice(slot, reg, data) ==
    write_slot(write_slot(slot, reg, data, m_rate, NoGarbage),
               reg, data, m_rate, NoGarbage)

(* C14: for sub-registers 0, 2, 3, 5, 6, 7 and for key-off writes to       *)
(* sub-register 4, writing the same byte twice in a row gives the same     *)
(* voice state as writing it once: repeating the write the host has just   *)
(* made changes nothing, and the same holds for any such write applied to  *)
(* the voice in any state it can be in.                                    *)
C14_WriteIdempotent ==
    /\ ( /\ op.kind = "write" /\ op.offset = 0 /\ op.slot \in SlotIds
         /\ (op.reg \in IdemRegs \/ (op.reg = 4 /\ op.data < 128)) ) =>
           write_slot(m_slots[op.slot], op.reg, op.data, m_rate, NoGarbage)
             = m_slots[op.slot]
    /\ \A d \in IdemBytes :
         /\ \A reg \in IdemRegs :
              WriteTwice(m_slots[0], reg, d)
                = write_slot(m_slots[0], reg, d, m_rate, NoGarbage)
         /\ d < 128 =>
              WriteTwice(m_slots[0], 4, d)
                = write_slot(m_slots[0], 4, d, m_rate, NoGarbage)

C14_Witness ==
    \* an interpolating level write to a sounding voice that starts a ramp
    /\ LastDataWrite(5)
    /\ op.data % 2 = 0
    /\ prev[op.slot].playing
    /\ prev[op.slot].envelope_gen.volume > 0
    /\ Level(m_slots[op.slot]) # m_slots[op.slot].dest_total_level
    /\ m_slots[op.slot].total_level_step # prev[op.slot].total_level_step
    /\ m_slots[op.slot].dest_total_level # prev[op.slot].dest_total_level

(* C15: a data write to sub-register 1 loads the descriptor with index     *)
(* regs[1] | ((regs[2] & 1) << 8), stores the descriptor's vibrato and     *)
(* amplitude LFO bytes in register bytes 6 and 7, copies base address and  *)
(* format from the descriptor, and retriggers (offset 0, ATTACK, volume 0) *)
(* exactly when the voice was playing; on a voice that was not playing the *)
(* playing flag, offset, envelope state and volume are as before.          *)
C15_SampleSelect ==
    LastDataWrite(1) =>
      LET old == prev[op.slot]
          new == m_slots[op.slot]
          d   == init_sample(op.data + 256 * (Reg(old, 2) % 2))
      IN  /\ Reg(new, 1) = op.data
          /\ new.sample = d
          /\ Reg(new, 6) = d.lfo_vibrato_reg
          /\ Reg(new, 7) = d.lfo_amplitude_reg
          /\ new.base = d.start
          /\ new.format = d.format
          /\ new.playing = old.playing
          /\ old.playing =>
               /\ new.offset = 0
               /\ new.envelope_gen.state = ATTACK
               /\ new.envelope_gen.volume = 0
          /\ ~old.playing =>
               /\ new.offset = old.offset
               /\ new.envelope_gen.state = old.envelope_gen.state
               /\ new.envelope_gen.volume = old.envelope_gen.volume

C15_Witness ==
    \* sample 10 selected on a voice that was stopped in the middle of the
    \* 12-bit sample
    /\ LastDataWrite(1)
    /\ op.data = 10
    /\ Reg(prev[0], 2) = 0
    /\ ~prev[0].playing
    /\ prev[0].offset > 0
    /\ prev[0].envelope_gen.state = DECAY1
    /\ prev[0].format = 8
    /\ m_slots[0].format = 0
    /\ m_slots[0].base = DataBase
    /\ m_slots[0].sample.loop = 1
    /\ Reg(m_slots[0], 6) = 5
    /\ Reg(m_slots[0], 7) = 3
    /\ m_slots[0].offset = prev[0].offset

LastPitchWrite ==
    LastDataWrite(2) \/ LastDataWrite(3)

PitchCode(slot) ==
    \* ((regs[3] & 0xF) << 6) | (regs[2] >> 2)
    (Reg(slot, 3) % 16) * 64 + (Reg(slot, 2) \div 4)

PitchOctave(slot) ==
    \* ((regs[3] >> 4) - 1) & 0xF
    ((Reg(slot, 3) \div 16) + 15) % 16

BaseStep(slot) ==
    \* the frequency-step table entry of the pitch code, per unit of rate
    (1024 + PitchCode(slot)) * 4

StepWrap ==
    \* 2^32 / m_rate: where a 32-bit table entry shifted left wraps
    (Pow2(30) \div m_rate) * 4

(* C16 as stated: on a write to sub-register 2 or 3 the pitch code is in   *)
(* 0..1023 and the playback step is the table entry shifted left (by some  *)
(* amount) when the octave value is >= 8 and shifted right when it is < 8, *)
(* divided by the sample rate.                                             *)
C16_AsStated ==
    LastPitchWrite =>
      LET s == m_slots[op.slot]
      IN  /\ PitchCode(s) \in 0 .. 1023
          /\ PitchOctave(s) >= 8 =>
               \E n \in 0 .. 15 : s.step = (BaseStep(s) * Pow2(n)) % StepWrap
          /\ PitchOctave(s) < 8 =>
               \E n \in 0 .. 15 : s.step = BaseStep(s) \div Pow2(n)

(* C16: on a write to sub-register 2 or 3 the pitch code is in 0..1023 and *)
(* the playback step is the table entry shifted right by 16 - octave when  *)
(* the octave value is >= 8 (negative octave) and shifted left by octave   *)
(* (within 32 bits) when it is < 8, divided by the sample rate.            *)
C16_PitchDecode ==
    LastPitchWrite =>
      LET s   == m_slots[op.slot]
          oct == PitchOctave(s)
      IN  /\ PitchCode(s) \in 0 .. 1023
          /\ oct >= 8 => s.step = BaseStep(s) \div Pow2(16 - oct)
          /\ oct < 8  => s.step = (BaseStep(s) * Pow2(oct)) % StepWrap

C16_Witness ==
    \* octave value 14 (two octaves down) with the highest pitch code
    /\ LastDataWrite(3)
    /\ op.data = 255
    /\ Reg(m_slots[0], 2) = 255
    /\ PitchCode(m_slots[0]) = 1023
    /\ PitchOctave(m_slots[0]) = 14
    /\ m_slots[0].step = 2047
    /\ m_slots[0].playing

Abs(n) ==
    IF n < 0 THEN -n ELSE n

LeftGain(pan, level) ==
    \* m_left_pan_table[(pan << 7) | level]
    PanGain(LeftPanTable, pan * 128 + level, 0)

RightGain(pan, level) ==
    \* m_right_pan_table[(pan << 7) | level]
    PanGain(RightPanTable, pan * 128 + level, 0)

OnlyVoice(sl) ==
    \* before the last operation sl was playing and no other voice was
    /\ prev[sl].playing
    /\ \A other \in SlotIds \ {sl} : ~prev[other].playing

(* C17: for every total level 0..0x7F pan code 8 has left gain = right     *)
(* gain = 0, and a render tick adds exactly zero on both channels for a    *)
(* playing voice with pan 8 (the output is <<0, 0>> when no other voice    *)
(* sounds); pan code 0 has left gain = right gain = the full gain of the   *)
(* level: 1024 (0.25 in 12-bit fixed point) at level 0, never rising with  *)
(* the level, and no pan code gives either channel more.                   *)
C17_PanMuteCentre ==
    /\ \A level \in 0 .. 127 :
         /\ LeftGain(8, level) = 0
         /\ RightGain(8, level) = 0
         /\ LeftGain(0, level) = RightGain(0, level)
         /\ \A pan \in 0 .. 15 :
              /\ LeftGain(pan, level) <= LeftGain(0, level)
              /\ RightGain(pan, level) <= RightGain(0, level)
         /\ level > 0 => LeftGain(0, level) <= LeftGain(0, level - 1)
    /\ LeftGain(0, 0) = 1024
    /\ LeftGain(0, 127) > 0
    /\ LastRender =>
         /\ \A sl \in SlotIds :
              prev[sl].playing /\ prev[sl].pan = 8 =>
                \A g \in GainGarbage(prev) :
                  /\ SlotStep(prev[sl], g).left = 0
                  /\ SlotStep(prev[sl], g).right = 0
         /\ (\A sl \in SlotIds : prev[sl].playing => prev[sl].pan = 8)
              => out = <<0, 0>>

C17_Witness ==
    \* a render tick of a voice at full envelope volume on a non-zero
    \* sample, muted by pan 8
    /\ LastRender
    /\ OnlyVoice(0)
    /\ prev[0].pan = 8
    /\ prev[0].step > 0
    /\ EnvelopeGain(m_slots[0], 0) > 0
    /\ RenderSlot([ prev[0] EXCEPT !.pan = 0 ], 0).left # 0
    /\ out = <<0, 0>>

(* C18 as stated: for every total level the left gain strictly decreases   *)
(* over the pan codes 1, 2, ..., 7 and is zero at 7 while the right gain   *)
(* stays full; the right gain strictly decreases over 0xF, 0xE, ..., 0x9   *)
(* and is zero at 0x9 while the left gain stays full; so a lone voice with *)
(* pan 7 renders nothing on the left and one with pan 9 nothing on the     *)
(* right.                                                                  *)
C18_AsStated ==
    /\ \A level \in 0 .. 127 :
         /\ \A pan \in 1 .. 6 : LeftGain(pan + 1, level) < LeftGain(pan, level)
         /\ LeftGain(7, level) = 0
         /\ \A pan \in 1 .. 7 : RightGain(pan, level) = RightGain(0, level)
         /\ \A pan \in 10 .. 15 : RightGain(pan - 1, level) < RightGain(pan, level)
         /\ RightGain(9, level) = 0
         /\ \A pan \in 9 .. 15 : LeftGain(pan, level) = LeftGain(0, level)
    /\ LastRender =>
         \A sl \in SlotIds :
           OnlyVoice(sl) =>
             /\ prev[sl].pan = 7 => out[1] = 0
             /\ prev[sl].pan = 9 => out[2] = 0

StrictLevels ==
    \* the total levels whose seven gains are far enough apart in 12-bit
    \* fixed point to be all different
    (0 .. 103) \ {96}

(* C18: for every total level the left gain never rises over the pan codes *)
(* 1, 2, ..., 7, is below the full gain at 1 and zero at 7, while the      *)
(* right gain stays full; the decrease is strict at every step for the     *)
(* total levels 0..95 and 97..103, beyond which truncation to fixed point  *)
(* makes neighbouring gains equal.  The same holds for the right gain over *)
(* 0xF, 0xE, ..., 0x9 with the left gain full.  On a render tick a lone    *)
(* voice is no louder on the attenuated channel than on the other.         *)
C18_PanDeflection ==
    /\ \A level \in 0 .. 127 :
         /\ \A pan \in 1 .. 6 : LeftGain(pan + 1, level) <= LeftGain(pan, level)
         /\ LeftGain(1, level) < LeftGain(0, level)
         /\ LeftGain(7, level) = 0
         /\ \A pan \in 1 .. 7 : RightGain(pan, level) = RightGain(0, level)
         /\ \A pan \in 10 .. 15 : RightGain(pan - 1, level) <= RightGain(pan, level)
         /\ RightGain(15, level) < RightGain(0, level)
         /\ RightGain(9, level) = 0
         /\ \A pan \in 9 .. 15 : LeftGain(pan, level) = LeftGain(0, level)
         /\ level \in StrictLevels =>
              /\ \A pan \in 1 .. 6 : LeftGain(pan + 1, level) < LeftGain(pan, level)
              /\ \A pan \in 10 .. 15 : RightGain(pan - 1, level) < RightGain(pan, level)
    /\ \A level \in (0 .. 127) \ StrictLevels :
         /\ \E pan \in 1 .. 6 : LeftGain(pan + 1, level) = LeftGain(pan, level)
         /\ \E pan \in 10 .. 15 : RightGain(pan - 1, level) = RightGain(pan, level)
    /\ LastRender =>
         \A sl \in SlotIds :
           OnlyVoice(sl) =>
             /\ prev[sl].pan \in 1 .. 7 => Abs(out[1]) <= Abs(out[2])
             /\ prev[sl].pan = 7 => out[1] = 0
             /\ prev[sl].pan \in 9 .. 15 => Abs(out[2]) <= Abs(out[1])
             /\ prev[sl].pan = 9 => out[2] = 0

C18_Witness ==
    \* a render tick of a sounding voice with pan 3: quieter on the left,
    \* not silent
    /\ LastRender
    /\ OnlyVoice(0)
    /\ prev[0].pan = 3
    /\ out[1] # 0
    /\ Abs(out[1]) < Abs(out[2])
    /\ LeftGain(4, 127) = LeftGain(3, 127)

EnvelopeCase(state, volume, attack_rate, decay1_rate, decay_level) ==
    \* a playing voice whose envelope generator holds the given values
    [ ZeroSlot EXCEPT
        !.playing      = TRUE,
        !.envelope_gen = [ volume |-> volume, state |-> state,
                           attack_rate |-> attack_rate,
                           decay1_rate |-> decay1_rate, decay2_rate |-> 0,
                           release_rate |-> 0, decay_level |-> decay_level ] ]

SameBut(old, new, volume, state) ==
    \* new is old with the envelope volume and state replaced
    new = [ old EXCEPT !.envelope_gen.volume = volume,
                       !.envelope_gen.state  = state ]

AttackAsClaimed(old, new) ==
    LET eg  == old.envelope_gen
        sum == eg.volume + eg.attack_rate
    IN  IF sum >= 1023 * Pow2(EG_SHIFT)
        THEN SameBut(old, new, 1023 * Pow2(EG_SHIFT),
                     IF eg.decay1_rate >= 1024 * Pow2(EG_SHIFT)
                     THEN DECAY2 ELSE DECAY1)
        ELSE SameBut(old, new, sum, ATTACK)

(* C19: an envelope step of a playing voice in ATTACK adds the attack rate *)
(* to the volume; when the sum is >= 0x3FF << EG_SHIFT the volume becomes  *)
(* exactly 0x3FF << EG_SHIFT and the state DECAY1, or DECAY2 when the      *)
(* decay1 rate is >= 0x400 << EG_SHIFT; otherwise the state stays ATTACK.  *)
(* Checked for the step function on volumes and rates around both          *)
(* thresholds, and on every render tick for the envelope of each playing   *)
(* voice in ATTACK.                                                        *)
C19_AttackStep ==
    /\ \A volume \in {0, 1, EgMax - 1672245, EgMax - 1, EgMax} :
         \A attack_rate \in {0, 1, 1672245, EgSkip} :
           \A decay1_rate \in {0, 236011, EgSkip - 1, EgSkip, EgSkip + 1} :
             LET s == EnvelopeCase(ATTACK, volume, attack_rate, decay1_rate, 0)
             IN  AttackAsClaimed(s, envelope_generator_update(s))
    /\ LastRender =>
         \A sl \in SlotIds :
           prev[sl].playing /\ prev[sl].envelope_gen.state = ATTACK =>
             /\ AttackAsClaimed(prev[sl], envelope_generator_update(prev[sl]))
             /\ m_slots[sl].envelope_gen
                  = envelope_generator_update(prev[sl]).envelope_gen
             /\ m_slots[sl].playing

C19_Witness ==
    \* the 41st tick of sample 11's attack: the sum passes the maximum, the
    \* volume is cut back to it and DECAY1 begins
    /\ LastRender
    /\ prev[0].playing
    /\ prev[0].envelope_gen.state = ATTACK
    /\ prev[0].envelope_gen.attack_rate = 1672245
    /\ prev[0].envelope_gen.volume + 1672245 > EgMax
    /\ prev[0].envelope_gen.decay1_rate < EgSkip
    /\ m_slots[0].envelope_gen.state = DECAY1
    /\ m_slots[0].envelope_gen.volume = EgMax

Decay1AsClaimed(old, new) ==
    LET eg == old.envelope_gen
        v  == IF eg.volume - eg.decay1_rate < 0 THEN 0
              ELSE eg.volume - eg.decay1_rate
    IN  IF v \div Pow2(EG_SHIFT) <= eg.decay_level * 64
        THEN SameBut(old, new, v, DECAY2)
        ELSE SameBut(old, new, v, DECAY1)

(* C20: an envelope step of a playing voice in DECAY1 subtracts the decay1 *)
(* rate from the volume, floored at 0, and the state becomes DECAY2 on     *)
(* exactly the ticks where the new volume >> EG_SHIFT is <= the stored     *)
(* sustain level << 6, else stays DECAY1; the stored sustain level of a    *)
(* playing voice is 0xF minus the 4-bit decay level of its descriptor      *)
(* (high nibble of descriptor byte 9).  Checked for the step function on   *)
(* volumes around 0 and around the threshold, and on every render tick.    *)
C20_Decay1Step ==
    /\ \A decay_level \in {0, 7, 15} :
         \A volume \in {0, 1, 65536, 236011, 448 * 65536, 449 * 65536,
                        449 * 65536 + 236011, EgMax} :
           \A decay1_rate \in {0, 1, 236011} :
             LET s == EnvelopeCase(DECAY1, volume, 0, decay1_rate, decay_level)
             IN  Decay1AsClaimed(s, envelope_generator_update(s))
    /\ \A sl \in SlotIds :
         m_slots[sl].playing =>
           /\ m_slots[sl].envelope_gen.decay_level
                = 15 - m_slots[sl].sample.decay_level
           /\ m_slots[sl].sample.decay_level
                = read_byte(Reg(m_slots[sl], 1) * 12 + 9) \div 16
    /\ LastRender =>
         \A sl \in SlotIds :
           prev[sl].playing /\ prev[sl].envelope_gen.state = DECAY1 =>
             /\ Decay1AsClaimed(prev[sl], envelope_generator_update(prev[sl]))
             /\ m_slots[sl].envelope_gen
                  = envelope_generator_update(prev[sl]).envelope_gen
             /\ m_slots[sl].playing

C20_Witness ==
    \* sample 11 (descriptor decay level 8, stored 7): the tick on which the
    \* volume comes down to 7 << 6 = 448
    /\ LastRender
    /\ prev[0].playing
    /\ prev[0].envelope_gen.state = DECAY1
    /\ prev[0].sample.decay_level = 8
    /\ prev[0].envelope_gen.decay_level = 7
    /\ prev[0].envelope_gen.volume \div Pow2(EG_SHIFT) > 448
    /\ m_slots[0].envelope_gen.volume \div Pow2(EG_SHIFT) <= 448
    /\ m_slots[0].envelope_gen.volume
         = prev[0].envelope_gen.volume - prev[0].envelope_gen.decay1_rate
    /\ m_slots[0].envelope_gen.state = DECAY2


RestartingWrite ==
    \* the last operation was a data write that can start or end a note:
    \* sample select (sub-register 1) or key on / key off (sub-register 4)
    LastDataWrite(1) \/ LastDataWrite(4)

(* C21: a render tick changes the envelope state of a voice only from      *)
(* ATTACK to DECAY1, from ATTACK to DECAY2 or from DECAY1 to DECAY2, so it *)
(* never sets the state to ATTACK or RELEASE; a playing voice in DECAY2 is *)
(* after a render tick still playing and in DECAY2 with the volume lowered *)
(* by the decay2 rate, floored at 0, and after any other operation that is *)
(* not a key-on, key-off or sample-select write still playing, in DECAY2,  *)
(* with the same volume.                                                   *)
C21_EnvelopeForward ==
    /\ LastRender =>
         \A sl \in SlotIds :
           LET old == prev[sl].envelope_gen
               new == m_slots[sl].envelope_gen
           IN  /\ new.state # old.state =>
                    << old.state, new.state >> \in
                      { <<ATTACK, DECAY1>>, <<ATTACK, DECAY2>>, <<DECAY1, DECAY2>> }
               /\ prev[sl].playing /\ old.state = DECAY2 =>
                    /\ m_slots[sl].playing
                    /\ new.state = DECAY2
                    /\ new.volume = IF old.volume - old.decay2_rate < 0 THEN 0
                                    ELSE old.volume - old.decay2_rate
    /\ ~LastRender /\ ~RestartingWrite =>
         \A sl \in SlotIds :
           prev[sl].playing /\ prev[sl].envelope_gen.state = DECAY2 =>
             /\ m_slots[sl].playing
             /\ m_slots[sl].envelope_gen = prev[sl].envelope_gen

C21_Witness ==
    \* a render tick of a voice in DECAY2 whose volume is still coming down
    /\ LastRender
    /\ prev[0].playing
    /\ prev[0].envelope_gen.state = DECAY2
    /\ prev[0].envelope_gen.decay2_rate > 0
    /\ prev[0].envelope_gen.volume > prev[0].envelope_gen.decay2_rate
    /\ m_slots[0].envelope_gen.state = DECAY2
    /\ m_slots[0].envelope_gen.volume
         = prev[0].envelope_gen.volume - prev[0].envelope_gen.decay2_rate


(* C22: a render tick of a playing voice in RELEASE lowers the envelope    *)
(* volume by the release rate, floored at 0, keeps the state RELEASE, and  *)
(* leaves the voice playing exactly when the new volume is above 0: the    *)
(* voice stops on the tick on which the volume reaches 0 and not before.   *)
(* A voice that is not playing is left not playing by every operation      *)
(* except a key-on write to it.                                            *)
C22_ReleaseStep ==
    /\ LastRender =>
         \A sl \in SlotIds :
           LET old == prev[sl].envelope_gen
               new == m_slots[sl].envelope_gen
           IN  prev[sl].playing /\ old.state = RELEASE =>
                 /\ new.volume = IF old.volume - old.release_rate < 0 THEN 0
                                 ELSE old.volume - old.release_rate
                 /\ new.state = RELEASE
                 /\ m_slots[sl].playing <=> new.volume > 0
    /\ \A sl \in SlotIds :
         ~prev[sl].playing /\ m_slots[sl].playing => LastKeyOn /\ op.slot = sl

C22_Witness ==
    \* the last tick of a release: what is left of the volume is no more
    \* than one step, the voice stops
    /\ LastRender
    /\ prev[0].playing
    /\ prev[0].envelope_gen.state = RELEASE
    /\ prev[0].envelope_gen.volume > 0
    /\ prev[0].envelope_gen.volume <= prev[0].envelope_gen.release_rate
    /\ m_slots[0].envelope_gen.volume = 0
    /\ ~m_slots[0].playing


RateCase(reg3, krs) ==
    \* a voice with the given pitch register byte 3 and descriptor
    \* key-rate-scale
    [ ZeroSlot EXCEPT !.regs[4] = reg3, !.sample.key_rate_scale = krs ]

(* C23: whatever the pitch register byte 3 and the descriptor's            *)
(* key-rate-scale and envelope register values are, the four indices at    *)
(* which the retrigger of a key-on reads the 64-entry rate-step tables lie *)
(* in 0..63.                                                               *)
C23_RateIndexInRange ==
    LastKeyOn =>
      LET s    == m_slots[op.slot]
          rate == RateOffset(RateCase(Reg(s, 3), s.sample.key_rate_scale))
      IN  \A val \in { s.sample.attack_reg, s.sample.decay1_reg,
                       s.sample.decay2_reg, s.sample.release_reg } :
            RateIndex(rate, val) \in 0 .. 63


RateStep(steps, rate, val) ==
    \* the table entry a rate is read from, for an index inside the table
    steps[ (IF val = 0 THEN 0
            ELSE IF val = 15 THEN 63
            ELSE IF 4 * val + rate > 63 THEN 63
            ELSE 4 * val + rate) + 1 ]

RatesFollow(slot, rate) ==
    \* the four envelope rates of slot are those read with rate offset rate,
    \* wherever the read is inside the table
    LET eg == slot.envelope_gen
        inside(val) == val \in {0, 15} \/ 4 * val + rate >= 0
    IN  /\ inside(slot.sample.attack_reg) =>
             eg.attack_rate = RateStep(AttackStepTable, rate, slot.sample.attack_reg)
        /\ inside(slot.sample.decay1_reg) =>
             eg.decay1_rate = RateStep(DecayReleaseStepTable, rate, slot.sample.decay1_reg)
        /\ inside(slot.sample.decay2_reg) =>
             eg.decay2_rate = RateStep(DecayReleaseStepTable, rate, slot.sample.decay2_reg)
        /\ inside(slot.sample.release_reg) =>
             eg.release_rate = RateStep(DecayReleaseStepTable, rate, slot.sample.release_reg)

(* C24 as stated: at a retrigger the rate offset is 0 when the descriptor  *)
(* key-rate-scale is 0xF and otherwise (octave + key_rate_scale) * 2 + bit *)
(* 3 of pitch register byte 3, with octave the signed value of the high    *)
(* nibble for which nibble 8 is octave 0 (nibble - 8); the envelope rates  *)
(* are read with that offset.                                              *)
C24_AsStated ==
    LastKeyOn =>
      LET s      == m_slots[op.slot]
          octave == (Reg(s, 3) \div 16) - 8
          rate   == IF s.sample.key_rate_scale = 15 THEN 0
                    ELSE (octave + s.sample.key_rate_scale) * 2
                         + ((Reg(s, 3) \div 8) % 2)
      IN  /\ RateOffset(s) = rate
          /\ RatesFollow(s, rate)

(* C24: at a retrigger the rate offset is 0 when the descriptor            *)
(* key-rate-scale is 0xF and otherwise (octave + key_rate_scale) * 2 + bit *)
(* 3 of pitch register byte 3, with octave the signed 4-bit value of (high *)
(* nibble - 1) mod 16: nibble 1 is octave 0, nibble 8 octave 7, nibble 9   *)
(* octave -8 and nibble 0 octave -1; the envelope rates are read with that *)
(* offset.                                                                 *)
C24_RateOffset ==
    /\ \A nibble \in 0 .. 15 : \A krs \in 0 .. 15 : \A bit3 \in 0 .. 1 :
         LET octave == IF nibble = 0 THEN -1
                       ELSE IF nibble <= 8 THEN nibble - 1
                       ELSE nibble - 17
         IN  RateOffset(RateCase(nibble * 16 + bit3 * 8, krs))
               = IF krs = 15 THEN 0 ELSE (octave + krs) * 2 + bit3
    /\ LastKeyOn =>
         LET s == m_slots[op.slot]
         IN  /\ RateOffset(s)
                  = RateOffset(RateCase(Reg(s, 3), s.sample.key_rate_scale))
             /\ RatesFollow(s, RateOffset(s))

C24_Witness ==
    \* key-on at pitch byte 0x18 (octave 0, bit 3 set) with key-rate-scale 0:
    \* offset 1, the release rate is read at index 4 * 1 + 1
    /\ LastKeyOn
    /\ Reg(m_slots[0], 3) = 24
    /\ m_slots[0].sample.key_rate_scale = 0
    /\ m_slots[0].sample.release_reg = 1
    /\ RateOffset(m_slots[0]) = 1
    /\ m_slots[0].envelope_gen.release_rate = DecayReleaseStepTable[6]
    /\ DecayReleaseStepTable[6] # DecayReleaseStepTable[5]


LfoSetTo(lfo, table, frequency, scale) ==
    \* lfo runs at the phase step of the frequency selector, on the given
    \* waveform table with the given depth selector
    /\ lfo.phase_step = LfoPhaseStep(m_rate, frequency)
    /\ lfo.table = table
    /\ lfo.scale = scale

(* C25: a data write of a non-zero byte to sub-register 6 or 7 sets the    *)
(* frequency of both LFOs from bits 3..5 of register 6, the pitch-LFO      *)
(* depth from the low 3 bits of register 6 and the amplitude-LFO depth     *)
(* from the low 3 bits of register 7, taken from the registers after the   *)
(* write; a write of zero changes only the stored register byte; neither   *)
(* changes an LFO phase or anything else of the voice.                     *)
C25_LfoReconfigure ==
    LastDataWrite(6) \/ LastDataWrite(7) =>
      LET old  == prev[op.slot]
          new  == m_slots[op.slot]
          regs == [ old.regs EXCEPT ![op.reg + 1] = op.data ]
          freq == (regs[7] \div 8) % 8
      IN  /\ new.regs = regs
          /\ new.pitch_lfo.phase = old.pitch_lfo.phase
          /\ new.amplitude_lfo.phase = old.amplitude_lfo.phase
          /\ new = [ old EXCEPT !.regs = regs,
                                !.pitch_lfo = new.pitch_lfo,
                                !.amplitude_lfo = new.amplitude_lfo ]
          /\ IF op.data # 0
             THEN /\ LfoSetTo(new.pitch_lfo, "pitch", freq, regs[7] % 8)
                  /\ LfoSetTo(new.amplitude_lfo, "amplitude", freq, regs[8] % 8)
             ELSE /\ new.pitch_lfo = old.pitch_lfo
                  /\ new.amplitude_lfo = old.amplitude_lfo

C25_Witness ==
    \* register 6 goes from 0x0B to 0x13 while both LFOs are running: both
    \* phase steps change from 4 to 6, the phases stay
    /\ LastDataWrite(6)
    /\ op.data = 19
    /\ Reg(prev[0], 6) = 11
    /\ Reg(prev[0], 7) = 3
    /\ prev[0].pitch_lfo.phase > 0
    /\ prev[0].amplitude_lfo.phase > 0
    /\ prev[0].amplitude_lfo.phase_step = 4
    /\ m_slots[0].amplitude_lfo.phase_step = 6
    /\ m_slots[0].pitch_lfo.phase_step = 6
    /\ m_slots[0].amplitude_lfo.scale = 3

(* C29: in every state, for every voice, if vibrato is enabled (regs[6] &  *)
(* 7 != 0) the pitch LFO runs at the frequency (regs[6] >> 3) & 7 with the *)
(* depth regs[6] & 7, and if tremolo is enabled (regs[7] & 7 != 0) the     *)
(* amplitude LFO runs at the frequency (regs[6] >> 3) & 7 with the depth   *)
(* regs[7] & 7.                                                            *)
C29_LfoMatchesRegisters ==
    \A sl \in SlotIds :
      LET s    == m_slots[sl]
          freq == (Reg(s, 6) \div 8) % 8
      IN  /\ Reg(s, 6) % 8 # 0 => LfoSetTo(s.pitch_lfo, "pitch", freq, Reg(s, 6) % 8)
          /\ Reg(s, 7) % 8 # 0 =>
               LfoSetTo(s.amplitude_lfo, "amplitude", freq, Reg(s, 7) % 8)


(* C26: a data write to sub-register 5 sets the destination total level to *)
(* bits 1..7 of the byte.  With bit 0 set the current total level becomes  *)
(* dest << TL_SHIFT in that write and the ramp step is kept; with bit 0    *)
(* clear the current total level is kept and the ramp step becomes the     *)
(* negative (fall) constant when the integer part of the current level is  *)
(* above the destination and the positive (rise) constant otherwise.       *)
(* Nothing else of the voice changes but the stored register byte.         *)
C26_TotalLevelDecode ==
    /\ TotalLevelSteps[1] < 0
    /\ TotalLevelSteps[2] > 0
    /\ LastDataWrite(5) =>
         LET old  == prev[op.slot]
             new  == m_slots[op.slot]
             dest == (op.data \div 2) % 128
         IN  /\ new.dest_total_level = dest
             /\ new = [ old EXCEPT !.regs[6] = op.data,
                                   !.dest_total_level = dest,
                                   !.total_level = new.total_level,
                                   !.total_level_step = new.total_level_step ]
             /\ IF op.data % 2 = 1
                THEN /\ new.total_level = dest * Pow2(TL_SHIFT)
                     /\ new.total_level_step = old.total_level_step
                ELSE /\ new.total_level = old.total_level
                     /\ new.total_level_step =
                          IF old.total_level \div Pow2(TL_SHIFT) > dest
                          THEN TotalLevelSteps[1] ELSE TotalLevelSteps[2]

C26_Witness ==
    \* an interpolating write below the current level, which is in the
    \* middle of an upward ramp: the level stays, the step turns negative
    /\ LastDataWrite(5)
    /\ op.data % 2 = 0
    /\ prev[op.slot].playing
    /\ prev[op.slot].total_level_step > 0
    /\ prev[op.slot].total_level % Pow2(TL_SHIFT) # 0
    /\ Level(prev[op.slot]) > (op.data \div 2) % 128
    /\ m_slots[op.slot].total_level = prev[op.slot].total_level
    /\ m_slots[op.slot].total_level_step = TotalLevelSteps[1]


(* C27: once a playing voice is in RELEASE (after a key-off write with a   *)
(* release register other than 0xF) with a release rate above 0, render    *)
(* ticks alone lead to the voice not playing; with a release rate of 0 and *)
(* a volume above 0 it stays playing, in RELEASE, as long as no write      *)
(* comes.                                                                  *)
C27_ReleaseEnds ==
    /\ ( /\ m_slots[0].playing
         /\ m_slots[0].envelope_gen.state = RELEASE
         /\ m_slots[0].sample.release_reg # 15
         /\ m_slots[0].envelope_gen.release_rate > 0 ) ~> ~m_slots[0].playing
    /\ [][ ( /\ m_slots[0].playing
             /\ m_slots[0].envelope_gen.state = RELEASE
             /\ m_slots[0].envelope_gen.release_rate = 0
             /\ m_slots[0].envelope_gen.volume > 0 )
           => ( /\ m_slots'[0].playing
                /\ m_slots'[0].envelope_gen = m_slots[0].envelope_gen ) ]_vars

C27_Witness ==
    \* sample 14, keyed off at full volume, has come to the end of its
    \* release
    /\ LastRender
    /\ Reg(m_slots[0], 1) = 14
    /\ Reg(m_slots[0], 4) = 0
    /\ prev[0].playing
    /\ prev[0].envelope_gen.state = RELEASE
    /\ prev[0].envelope_gen.release_rate = 236011
    /\ ~m_slots[0].playing


(* C28: for every voice the envelope volume is within 0 .. 0x3FF <<        *)
(* EG_SHIFT in every state, so that volume >> EG_SHIFT is an index in      *)
(* 0..0x3FF; a render tick of a playing voice does not lower the volume in *)
(* ATTACK and does not raise it in DECAY1, DECAY2 or RELEASE.              *)
C28_VolumeInRange ==
    /\ \A sl \in SlotIds :
         /\ m_slots[sl].envelope_gen.volume \in 0 .. EgMax
         /\ EnvelopeIndex(m_slots[sl]) \in 0 .. 1023
    /\ LastRender =>
         \A sl \in SlotIds :
           prev[sl].playing =>
             IF prev[sl].envelope_gen.state = ATTACK
             THEN m_slots[sl].envelope_gen.volume >= prev[sl].envelope_gen.volume
             ELSE m_slots[sl].envelope_gen.volume <= prev[sl].envelope_gen.volume


(* C30: a data write (address 0) with a valid voice selected changes only  *)
(* that voice: every other voice, the voice selector and the sub-register  *)
(* selector are as before the write.  A write to address 1, 2 or any other *)
(* address leaves every voice as it was.                                   *)
C30_VoiceIsolation ==
    op.kind = "write" =>
      /\ (op.offset = 0 /\ op.slot \in SlotIds) =>
           /\ \A sl \in SlotIds \ {op.slot} : m_slots[sl] = prev[sl]
           /\ m_cur_slot = op.slot
           /\ m_address = op.reg
      /\ op.offset # 0 => m_slots = prev

C30_Witness ==
    \* voice 1 is keyed on while voice 0 is sounding
    /\ op.kind = "write" /\ op.offset = 0 /\ op.slot = 1 /\ op.reg = 4
    /\ m_slots[1] # prev[1]
    /\ m_slots[1].playing
    /\ m_slots[0].playing /\ m_slots[0].offset > 0


(* C31: a playing voice whose descriptor has loop < end has, after every   *)
(* retrigger (key on, sample select while playing) and after every render  *)
(* tick, a playback offset strictly below end << TL_SHIFT.  With            *)
(* loop >= end, the offset after a render tick that wrapped is not below   *)
(* end << TL_SHIFT.                                                        *)
C31_OffsetInsideSample ==
    \A sl \in SlotIds :
      LET old == prev[sl]
          new == m_slots[sl]
          limit == Shl(new.sample.end, TL_SHIFT)
      IN  /\ ( /\ new.playing
               /\ new.sample.loop < new.sample.end
               /\ \/ LastRender
                  \/ LastKeyOn /\ op.slot = sl
                  \/ LastDataWrite(1) /\ op.slot = sl /\ old.playing )
             => new.offset < limit
          /\ ( /\ LastRender
               /\ old.playing
               /\ old.sample.loop >= old.sample.end
               /\ Reg(old, 6) % 8 = 0
               /\ old.offset + old.step >= Shl(old.sample.end, TL_SHIFT) )
             => new.offset >= limit

C31_Witness ==
    \* a tick at four positions per step that overshoots the end by more
    \* than one position and lands on the loop start
    /\ LastRender
    /\ prev[0].playing /\ m_slots[0].playing
    /\ prev[0].sample.loop = 1 /\ prev[0].sample.end = 3
    /\ prev[0].step = Shl(4, TL_SHIFT)
    /\ prev[0].offset + prev[0].step > Shl(4, TL_SHIFT)
    /\ m_slots[0].offset = Shl(1, TL_SHIFT)


(* C32: every decay1 rate computed at a retrigger is below the skip        *)
(* threshold 0x400 << EG_SHIFT, and a render tick that takes a playing     *)
(* voice's envelope out of ATTACK leaves it in DECAY1, never in DECAY2.    *)
C32_AttackExitsToDecay1 ==
    LastRender =>
      \A sl \in SlotIds :
        (prev[sl].playing /\ prev[sl].envelope_gen.state = ATTACK) =>
          /\ prev[sl].envelope_gen.decay1_rate < EgSkip
          /\ m_slots[sl].envelope_gen.state # ATTACK
               => m_slots[sl].envelope_gen.state = DECAY1

====
